---- MODULE Spec2Model ----
(***************************************************************************)
(* Model of the Port resource reconciliation of the aws-serverless         *)
(* integration (install_standalone.py): the integration-config reconciler  *)
(* update_integration_config with its helpers, run from main against a     *)
(* remote API whose writes become visible to reads eventually.             *)
(***************************************************************************)
EXTENDS Integers, Sequences, FiniteSets, TLC

VARIABLES
    pc,              \* position of the run in main / update_integration_config
    force_recreate,  \* --force-recreate: the strict-verification opt-in
    wrapped,         \* the remote returns the integration under "integration"
    stored,          \* the integration the remote holds (its accepted writes)
    visible,         \* the integration the remote's reads currently show
    live_data,       \* response.json() of the initial fetch
    calls,           \* the remote requests issued so far, with their answers
    logs,            \* the log lines emitted by the reconciler
    exit_code,       \* the status main exits with (read when pc = "exited")
    args_webhook,    \* --webhook: the webhook reference (empty: absent)
    args_ingest_base_url, \* --ingest-base-url
    webhook_url,     \* the URL create_or_resolve_port_webhook returned
    wh_calls,        \* the webhook requests issued so far, with their answers
    error,           \* the message of the PortSetupError main reported
    response_data,   \* the response body handed to the extraction
    blueprints,      \* load_blueprints(): the desired blueprints, in order
    bp_index,        \* the blueprint the pass is at
    bp_exists,       \* the identifiers of the blueprints the remote holds
    bp_calls,        \* the blueprint requests issued so far
    run,             \* 1 in the first run of the script, 2 in a second one
    prev,            \* the record of the first run, once a second one started
    auth_calls,      \* the token exchanges requested so far, with their answers
    args_verify_mappings, \* --verify-mappings
    vm_calls,        \* the requests of verify_mappings after its token exchange
    diff_live,       \* _compare_configs: the live config it is called with
    diff_local,      \* _compare_configs: the local config it is called with
    diff_out,        \* _compare_configs: what the call returned or that it raised
    procs,           \* the runs of the script that are under way at the same time
    ss_args,         \* install_stackset.py: the arguments of the run
    issues,          \* install_stackset.py: the issues preflight recorded
    cfn_calls,       \* install_stackset.py: the StackSet requests issued so far
    printed,         \* install_stackset.py: what main printed
    records,         \* handler.py: the bodies of the event's records, in order
    rec_index,       \* handler.py: the record lambda_handler is at
    forwards         \* handler.py: the forwarding attempts made so far

\* The state of the reconciler.
integ_vars == <<pc, force_recreate, wrapped, stored, visible, live_data, calls,
                logs, exit_code>>

\* The state of the webhook stage.
wh_vars == <<args_webhook, args_ingest_base_url, response_data, webhook_url, wh_calls, error>>

\* The state of the blueprint pass.
bp_vars == <<blueprints, bp_index, bp_exists, bp_calls>>

\* The state of a sequence of runs.
run_vars == <<run, prev>>

\* The state of main around setup_port_resources.
main_vars == <<auth_calls, args_verify_mappings, vm_calls>>

\* The state of a call of the diff.
diff_vars == <<diff_live, diff_local, diff_out>>

\* The state of install_stackset.py.
stackset_vars == <<ss_args, issues, cfn_calls, printed>>

\* The state of lambda_handler.
lambda_vars == <<records, rec_index, forwards>>

\* The state of the AWS-side programs.
aws_vars == <<stackset_vars, lambda_vars>>

vars == <<integ_vars, wh_vars, bp_vars, run_vars, main_vars, diff_vars, procs, aws_vars>>

----------------------------------------------------------------------------
(* Program constants and JSON values *)

HTTP_SUCCESS_THRESHOLD == 300

integration_id == "aws-serverless"

\* A JSON object is a function from its keys to its values.
EmptyDoc == [k \in {} |-> k]

\* dict.get(key, default)
Get(d, k, default) == IF k \in DOMAIN d THEN d[k] ELSE default

\* d[key] = value on a copy of d
Put(d, k, v) == [x \in DOMAIN d \cup {k} |-> IF x = k THEN v ELSE d[x]]

\* d.pop(key, None) for every key of ks, on a copy of d
Pop(d, ks) == [x \in DOMAIN d \ ks |-> d[x]]

\* A config value: None / not a dict, or a dict with its "resources" list
\* (a missing or null list reads as the empty one: bool() of both is False).
None == [isDict |-> FALSE, resources |-> <<>>]

Cfg(resources) == [isDict |-> TRUE, resources |-> resources]

\* The local desired configuration, load_port_app_config()
port_app_config == Cfg(<<"ec2_instance", "s3_bucket">>)

\* The configs a remote integration may hold before the run.
LiveConfigs == {None, Cfg(<<>>), Cfg(<<"lambda_function">>), port_app_config}

Absent == [present |-> FALSE, doc |-> EmptyDoc]

Present(doc) == [present |-> TRUE, doc |-> doc]

\* The integrations the remote may hold before the run, with or without a
\* config field.
InitialDocs ==
    { [installationId |-> integration_id, createdAt |-> "t0", updatedAt |-> "t0"] }
    \cup { [installationId |-> integration_id, createdAt |-> "t0",
            updatedAt |-> "t0", config |-> c] : c \in LiveConfigs }

----------------------------------------------------------------------------
(* The remote API *)

\* Body of a 200 answer to GET /integration/{id}: flat, or wrapped under
\* "integration".
ResponseBody(doc) ==
    IF wrapped THEN [ok |-> TRUE, integration |-> doc]
    ELSE Put(doc, "ok", TRUE)

\* The answers GET /integration/{id} can give: what reads show now, or an
\* error status.
GetResponses ==
    { IF visible.present
      THEN [status |-> 200, body |-> ResponseBody(visible.doc)]
      ELSE [status |-> 404, body |-> EmptyDoc],
      [status |-> 500, body |-> EmptyDoc] }

\* The statuses a write (PATCH, DELETE, POST) can be answered with.
WriteStatuses == {200, 201, 500}

\* The remote accepts a write iff it answers below the success threshold.
Accepted(status) == status < 300

\* The fields of an integration a client may write.
WritableFields == {"installationId", "installationAppType", "version",
                   "changelogDestination", "config"}

\* PATCH /integration/{id}: the writable fields of the body replace the
\* stored ones.
RemotePatch(doc, body) ==
    LET keys == DOMAIN body \cap WritableFields
    IN  [k \in DOMAIN doc \cup keys \cup {"updatedAt"} |->
            IF k = "updatedAt" THEN "t1"
            ELSE IF k \in keys THEN body[k] ELSE doc[k]]

\* PATCH /integration/{id}/config: the body is the new config.
RemotePatchConfig(doc, config) ==
    RemotePatch(doc, [config |-> config])

\* POST /integration: a fresh integration built from the body.
RemoteCreate(body) ==
    RemotePatch([createdAt |-> "t1"], body)

----------------------------------------------------------------------------
(* The record of a run: its requests and their answers *)

\* A request that got a response.
Call(op, url, body, response) ==
    [op |-> op, url |-> url, body |-> body, raised |-> FALSE,
     status |-> response.status, reply |-> response.body]

\* A request that raised httpx.HTTPError (network failure, timeout) instead
\* of returning a response.
RaisedCall(op, url, body) ==
    [op |-> op, url |-> url, body |-> body, raised |-> TRUE,
     status |-> 0, reply |-> EmptyDoc]

\* The answer of a write: a status and no body the code reads.
WriteResponse(status) == [status |-> status, body |-> EmptyDoc]

integ_url == "integration/id"

sub_url == "integration/id/config"

create_url == "integration"

\* An exception of a request leaves update_integration_config and
\* setup_port_resources and reaches main's handler, which exits 1.
Raises(op, url, body) ==
    /\ calls' = Append(calls, RaisedCall(op, url, body))
    /\ pc' = "exited"
    /\ exit_code' = 1
    /\ UNCHANGED <<force_recreate, wrapped, stored, visible, live_data, logs>>

----------------------------------------------------------------------------
(* The decisions of the reconciler *)

\* response.status_code >= HTTP_SUCCESS_THRESHOLD
IsError(status) == status >= HTTP_SUCCESS_THRESHOLD

\* Faulty variant of fetch_next: a 404 is treated like any unexpected status
\* and nothing is created.
fetch_next_no_create(status) ==
    IF status # 200 THEN "returned" ELSE "patch"

\* Faulty variant of fetch_next: an integration that is found is created
\* again.
fetch_next_always_create(status) ==
    IF status = 404 \/ status = 200 THEN "create" ELSE "returned"

\* Faulty variant of fetch_next: whatever is not found present is created.
fetch_next_create_unless_found(status) ==
    IF status = 200 THEN "patch" ELSE "create"

\* update_integration_config after the initial fetch: create on 404, give
\* up on any other status than 200, else update.
fetch_next(status) ==
    IF status = 404 THEN "create"
    ELSE IF status # 200 THEN "returned"
    ELSE "patch"

\* Faulty variant of patch_body: the desired config is not put in the body.
patch_body_keep_config(live, config) ==
    Pop(live, {"createdAt", "updatedAt", "ok"})

\* The update's body: the live resource with the config replaced and the
\* read-only fields removed.
patch_body(live, config) ==
    Pop(Put(live, "config", config), {"createdAt", "updatedAt", "ok"})

\* Faulty variant of patch_next: verification without the opt-in.
patch_next_always_verify(status, force) == "verify"

\* Faulty variant of patch_next: a failed PATCH ends the run.
patch_next_stop_on_failure(status, force) ==
    IF IsError(status) THEN "returned"
    ELSE IF force THEN "verify" ELSE "returned"

\* update_integration_config after the PATCH: the status is only logged;
\* verification follows whenever force_recreate is set.
patch_next(status, force) ==
    IF force THEN "verify" ELSE "returned"

\* The line the PATCH logs.
patch_log(status) ==
    IF IsError(status) THEN "Patch failed" ELSE "Updated integration config"

\* The body of _create_integration's POST.
create_body(config) ==
    [installationId |-> integration_id,
     installationAppType |-> "aws-serverless",
     version |-> "1.0.0",
     changelogDestination |-> EmptyDoc,
     config |-> config]

\* The line _create_integration logs.
create_log(status) ==
    IF IsError(status) THEN "Create failed" ELSE "Created integration"

\* Faulty variant of config_present: only the flat response shape is read.
config_present_flat_only(response) ==
    IF response.status # 200 THEN FALSE
    ELSE LET config == Get(response.body, "config", None)
         IN  IF ~config.isDict THEN FALSE
             ELSE config.resources # <<>>

\* The result of _verify_config_present for a response.
config_present(response) ==
    IF response.status # 200 THEN FALSE
    ELSE LET data == response.body
             config == IF "integration" \in DOMAIN data
                       THEN Get(data["integration"], "config", None)
                       ELSE Get(data, "config", None)
         IN  IF ~config.isDict THEN FALSE
             ELSE config.resources # <<>>

\* Faulty variant of verify_next: a failed first verification goes straight
\* to the delete, without the subresource PATCH.
verify_next_recreate_first(at, ok) ==
    IF ok THEN "returned" ELSE "delete"

\* Faulty variant of verify_next: a failed re-verification retries the
\* subresource PATCH.
verify_next_retry(at, ok) ==
    IF ok THEN "returned" ELSE "subpatch"

\* Where the run goes after a verification: at "verify" (the call in
\* update_integration_config) or at "reverify" (the call in
\* _retry_config_update).
verify_next(at, ok) ==
    IF at = "verify"
    THEN (IF ok THEN "returned" ELSE "subpatch")
    ELSE (IF ok THEN "returned" ELSE "delete")

\* Faulty variant of subpatch_next: the re-verification is skipped.
subpatch_next_skip_verify(status) == "delete"

\* _retry_config_update after the subresource PATCH: verify again if it
\* succeeded, else fall back to delete and recreate.
subpatch_next(status) ==
    IF status < HTTP_SUCCESS_THRESHOLD THEN "reverify" ELSE "delete"

\* Faulty variant of delete_next: the delete's status is ignored.
delete_next_ignore_failure(status) == "recreate"

\* Faulty variant of delete_next: nothing is created after the delete.
delete_next_no_create(status) == "returned"

\* _retry_config_update after the DELETE: stop if it failed, else create.
delete_next(status) ==
    IF IsError(status) THEN "returned" ELSE "recreate"

----------------------------------------------------------------------------
(* Strings: a string is the sequence of its characters; None and "" are    *)
(* both the empty sequence (the code only tests them with `if value`).      *)

MIN_WEBHOOK_ID_LENGTH == 10

Letters == {"a", "b", "c", "d", "e", "f", "g", "h", "i", "j", "k", "l", "m",
            "n", "o", "p", "q", "r", "s", "t", "u", "v", "w", "x", "y", "z"}

Digits == {"0", "1", "2", "3", "4", "5", "6", "7", "8", "9"}

\* str.isalnum(): non-empty and every character a letter or a digit
IsAlnum(s) == Len(s) > 0 /\ \A i \in 1..Len(s) : s[i] \in Letters \cup Digits

\* str.startswith(prefix)
StartsWith(s, prefix) ==
    Len(s) >= Len(prefix) /\ SubSeq(s, 1, Len(prefix)) = prefix

\* The positions at which sep occurs in s.
Occurrences(s, sep) ==
    {i \in 1..(Len(s) - Len(sep) + 1) : SubSeq(s, i, i + Len(sep) - 1) = sep}

\* sep in s
Contains(s, sep) == Occurrences(s, sep) # {}

\* The least element of a non-empty set of numbers.
Min(set) == CHOOSE i \in set : \A j \in set : i <= j

\* str.split(sep): the pieces of s between the occurrences of sep, left to
\* right.
RECURSIVE Split(_, _)
Split(s, sep) ==
    IF ~Contains(s, sep) THEN <<s>>
    ELSE LET i == Min(Occurrences(s, sep))
         IN  <<SubSeq(s, 1, i - 1)>> \o Split(SubSeq(s, i + Len(sep), Len(s)), sep)

\* str.rstrip(ch)
RECURSIVE RStrip(_, _)
RStrip(s, ch) ==
    IF Len(s) > 0 /\ s[Len(s)] = ch THEN RStrip(SubSeq(s, 1, Len(s) - 1), ch)
    ELSE s

\* parts[-1]
Last(parts) == parts[Len(parts)]

Slash == <<"/">>

QuestionMark == <<"?">>

HttpPrefix == <<"h", "t", "t", "p", ":", "/", "/">>

HttpsPrefix == <<"h", "t", "t", "p", "s", ":", "/", "/">>

WebhooksSegment == <<"/", "w", "e", "b", "h", "o", "o", "k", "s", "/">>

\* The default identifier of normalize_webhook_identifier.
DefaultWebhookId == <<"a", "w", "s", "_", "i", "n", "g", "e", "s", "t">>

----------------------------------------------------------------------------
(* Webhook responses: JSON values that may be strings, objects or neither  *)

JStr(s) == [t |-> "str", s |-> s, d |-> EmptyDoc]

JDict(d) == [t |-> "dict", s |-> <<>>, d |-> d]

\* null, a number, a list: a value that is neither a string nor an object
JOther == [t |-> "other", s |-> <<>>, d |-> EmptyDoc]

\* null / None
JNull == [t |-> "null", s |-> <<>>, d |-> EmptyDoc]

\* A JSON array.
JList(items) == [t |-> "list", items |-> items]

\* The field paths extract_webhook_key_from_response tries, in its order:
\* first the URL fields, then the key/ID fields (path.split('.')).
UrlPaths == << <<"url">>, <<"integration", "url">>, <<"webhook", "url">> >>

KeyPaths == << <<"webhookKey">>, <<"integration", "webhookKey">>,
               <<"webhook", "webhookKey">>, <<"id">>, <<"_id">> >>

\* The inner loop: value = value.get(key, {}) if isinstance(value, dict)
\* else None, for each key of the path.
RECURSIVE Walk(_, _)
Walk(value, keys) ==
    IF keys = <<>> THEN value
    ELSE Walk(IF value.t = "dict" THEN Get(value.d, Head(keys), JDict(EmptyDoc))
              ELSE JOther,
              Tail(keys))

\* isinstance(value, str) and value.startswith(base)
valid_url(value, base) == value.t = "str" /\ StartsWith(value.s, base)

\* isinstance(value, str) and len(value) >= MIN_WEBHOOK_ID_LENGTH and
\* value.isalnum()
valid_key(value) ==
    value.t = "str" /\ Len(value.s) >= MIN_WEBHOOK_ID_LENGTH /\ IsAlnum(value.s)

\* Faulty variant of extract_webhook_key_from_response: the key fields are
\* tried before the URL fields.
extract_keys_first(data, ingest_base_url) ==
    LET base == RStrip(ingest_base_url, "/")
        urls == {i \in 1..Len(UrlPaths) : valid_url(Walk(data, UrlPaths[i]), base)}
        keys == {i \in 1..Len(KeyPaths) : valid_key(Walk(data, KeyPaths[i]))}
    IN  IF keys # {} THEN base \o Slash \o Walk(data, KeyPaths[Min(keys)]).s
        ELSE IF urls # {} THEN Walk(data, UrlPaths[Min(urls)]).s
        ELSE <<>>

\* extract_webhook_key_from_response: the first URL field that is a string
\* starting with the base, else the base joined with the first key field
\* that is an alphanumeric string of the minimum length, else None.
extract_webhook_key_from_response(data, ingest_base_url) ==
    LET base == RStrip(ingest_base_url, "/")
        urls == {i \in 1..Len(UrlPaths) : valid_url(Walk(data, UrlPaths[i]), base)}
        keys == {i \in 1..Len(KeyPaths) : valid_key(Walk(data, KeyPaths[i]))}
    IN  IF urls # {} THEN Walk(data, UrlPaths[Min(urls)]).s
        ELSE IF keys # {} THEN base \o Slash \o Walk(data, KeyPaths[Min(keys)]).s
        ELSE <<>>

\* Faulty variant of normalize_webhook_identifier: the query string is not
\* cut off the identifier.
normalize_keep_query(value) ==
    IF value = <<>> THEN DefaultWebhookId
    ELSE IF Contains(value, WebhooksSegment)
              /\ Len(Split(value, WebhooksSegment)) > 1
              /\ Split(value, WebhooksSegment)[2] # <<>>
         THEN Split(Split(value, WebhooksSegment)[2], Slash)[1]
         ELSE value

\* normalize_webhook_identifier
normalize_webhook_identifier(value) ==
    IF value = <<>> THEN DefaultWebhookId
    ELSE IF Contains(value, WebhooksSegment)
              /\ Len(Split(value, WebhooksSegment)) > 1
              /\ Split(value, WebhooksSegment)[2] # <<>>
         THEN Split(Split(Split(value, WebhooksSegment)[2], QuestionMark)[1],
                    Slash)[1]
         ELSE value

\* webhook_opt.startswith(("http://", "https://"))
is_full_url(webhook_opt) ==
    StartsWith(webhook_opt, HttpPrefix) \/ StartsWith(webhook_opt, HttpsPrefix)

\* len(webhook_opt) >= MIN_WEBHOOK_ID_LENGTH and webhook_opt.isalnum()
is_bare_token(webhook_opt) ==
    Len(webhook_opt) >= MIN_WEBHOOK_ID_LENGTH /\ IsAlnum(webhook_opt)

\* Faulty variant of needs_lookup: a bare token is looked up too.
needs_lookup_for_tokens(webhook_opt) ==
    webhook_opt = <<>> \/ ~is_full_url(webhook_opt)

\* create_or_resolve_port_webhook goes on to the remote lookup: the
\* reference is absent, or neither a full URL nor a bare token.
needs_lookup(webhook_opt) ==
    webhook_opt = <<>> \/ (~is_full_url(webhook_opt) /\ ~is_bare_token(webhook_opt))

\* Faulty variant of direct_webhook_url: a full URL is returned as given,
\* whatever its host.
direct_webhook_url_as_given(webhook_opt, ingest_base_url) ==
    IF is_full_url(webhook_opt) THEN webhook_opt
    ELSE RStrip(ingest_base_url, "/") \o Slash \o webhook_opt

\* create_or_resolve_port_webhook for a full URL or a bare token: the URL
\* it returns without a request.
direct_webhook_url(webhook_opt, ingest_base_url) ==
    IF is_full_url(webhook_opt)
    THEN IF StartsWith(webhook_opt, RStrip(ingest_base_url, "/"))
         THEN webhook_opt
         ELSE RStrip(ingest_base_url, "/") \o Slash
              \o Last(Split(RStrip(webhook_opt, "/"), Slash))
    ELSE RStrip(ingest_base_url, "/") \o Slash \o webhook_opt

----------------------------------------------------------------------------
(* Inputs of the webhook stage and the parts of a run that are not under   *)
(* study in a specification                                                 *)

\* The ingest base URLs of the runs: without and with a trailing slash.
BaseUrl == <<"h", "t", "t", "p", "s", ":", "/", "/", "i", ".", "i", "o">>

BaseUrlSlash == BaseUrl \o Slash

IngestBaseUrls == {BaseUrl, BaseUrlSlash}

\* No PortSetupError was reported.
NoError == ""

\* The webhook stage before it starts.
WebhookIdle ==
    /\ args_webhook = <<>>
    /\ args_ingest_base_url = BaseUrl
    /\ response_data = JDict(EmptyDoc)
    /\ webhook_url = <<>>
    /\ wh_calls = <<>>
    /\ error = NoError

\* The blueprint pass with nothing to do.
BlueprintsIdle ==
    /\ blueprints = <<>>
    /\ bp_index = 1
    /\ bp_exists = {}
    /\ bp_calls = <<>>

\* The record of a run that has not happened.
NoPrev == [calls |-> <<>>, bp_calls |-> <<>>]

\* The first run of the script.
FirstRun ==
    /\ run = 1
    /\ prev = NoPrev

\* main outside setup_port_resources: the token is taken for granted and
\* --verify-mappings is not given.
MainIdle ==
    /\ auth_calls = <<>>
    /\ args_verify_mappings = FALSE
    /\ vm_calls = <<>>

\* No call of the diff.
NoDiff == [raised |-> FALSE, diffs |-> <<>>]

DiffIdle ==
    /\ diff_live = JNull
    /\ diff_local = JNull
    /\ diff_out = NoDiff

\* A single run of the script.
Alone == procs = <<>>

\* install_stackset.py and the Lambda are not running.
NoArgs == [apply |-> FALSE]

AwsIdle ==
    /\ ss_args = NoArgs
    /\ issues = <<>>
    /\ cfn_calls = <<>>
    /\ printed = <<>>
    /\ records = <<>>
    /\ rec_index = 1
    /\ forwards = <<>>

----------------------------------------------------------------------------
(* The run *)

Init ==
    /\ pc = "fetch"
    /\ force_recreate \in BOOLEAN
    /\ wrapped \in BOOLEAN
    /\ stored \in {Absent} \cup {Present(d) : d \in InitialDocs}
    /\ visible = stored
    /\ live_data = EmptyDoc
    /\ calls = <<>>
    /\ logs = <<>>
    /\ exit_code = 0
    /\ WebhookIdle
    /\ BlueprintsIdle
    /\ FirstRun
    /\ MainIdle
    /\ DiffIdle
    /\ Alone
    /\ AwsIdle

\* update_integration_config, the initial fetch and the branch on its status.
update_integration_config_get ==
    /\ pc = "fetch"
    /\ \/ \E response \in GetResponses :
            /\ calls' = Append(calls, Call("GET", integ_url, EmptyDoc, response))
            /\ pc' = fetch_next(response.status)
            /\ live_data' = IF fetch_next(response.status) = "patch"
                            THEN response.body ELSE live_data
            /\ logs' = IF fetch_next(response.status) = "patch"
                       THEN Append(logs, "Integration exists, updating config...")
                       ELSE IF fetch_next(response.status) = "returned"
                       THEN Append(logs, "Unexpected response")
                       ELSE logs
            /\ UNCHANGED <<force_recreate, wrapped, stored, visible, exit_code>>
       \/ Raises("GET", integ_url, EmptyDoc)
    /\ UNCHANGED <<wh_vars, bp_vars, run_vars, main_vars, diff_vars, procs, aws_vars>>

\* update_integration_config, the update of an existing integration.
update_integration_config_patch ==
    /\ pc = "patch"
    /\ LET body == patch_body(live_data, port_app_config)
       IN  \/ \E status \in WriteStatuses :
                /\ calls' = Append(calls,
                                Call("PATCH", integ_url, body, WriteResponse(status)))
                /\ stored' = IF Accepted(status) /\ stored.present
                             THEN Present(RemotePatch(stored.doc, body))
                             ELSE stored
                /\ logs' = Append(logs, patch_log(status))
                /\ pc' = patch_next(status, force_recreate)
                /\ UNCHANGED <<force_recreate, wrapped, visible, live_data, exit_code>>
           \/ Raises("PATCH", integ_url, body)
    /\ UNCHANGED <<wh_vars, bp_vars, run_vars, main_vars, diff_vars, procs, aws_vars>>

\* _create_integration, called for an absent integration ("create") and by
\* _retry_config_update after the delete ("recreate"), which then logs the
\* recreation and returns.
_create_integration ==
    /\ pc \in {"create", "recreate"}
    /\ LET body == create_body(port_app_config)
       IN  \/ \E status \in WriteStatuses :
                /\ calls' = Append(calls,
                                Call("POST", create_url, body, WriteResponse(status)))
                /\ stored' = IF Accepted(status)
                             THEN Present(RemoteCreate(body))
                             ELSE stored
                /\ logs' = IF pc = "recreate"
                           THEN logs \o <<create_log(status),
                                          "Integration recreated with config">>
                           ELSE Append(logs, create_log(status))
                /\ pc' = "returned"
                /\ UNCHANGED <<force_recreate, wrapped, visible, live_data, exit_code>>
           \/ Raises("POST", create_url, body)
    /\ UNCHANGED <<wh_vars, bp_vars, run_vars, main_vars, diff_vars, procs, aws_vars>>

\* _verify_config_present, called after the update ("verify") and after the
\* subresource PATCH ("reverify").
_verify_config_present ==
    /\ pc \in {"verify", "reverify"}
    /\ \/ \E response \in GetResponses :
            /\ calls' = Append(calls, Call("GET", integ_url, EmptyDoc, response))
            /\ pc' = verify_next(pc, config_present(response))
            /\ logs' = IF pc = "reverify" /\ config_present(response)
                       THEN Append(logs, "Config now present after subresource PATCH")
                       ELSE logs
            /\ UNCHANGED <<force_recreate, wrapped, stored, visible, live_data,
                           exit_code>>
       \/ Raises("GET", integ_url, EmptyDoc)
    /\ UNCHANGED <<wh_vars, bp_vars, run_vars, main_vars, diff_vars, procs, aws_vars>>

\* _retry_config_update, the subresource PATCH.
_retry_config_update_patch ==
    /\ pc = "subpatch"
    /\ \/ \E status \in WriteStatuses :
            /\ calls' = Append(calls, Call("PATCH", sub_url, port_app_config,
                                           WriteResponse(status)))
            /\ stored' = IF Accepted(status) /\ stored.present
                         THEN Present(RemotePatchConfig(stored.doc, port_app_config))
                         ELSE stored
            /\ pc' = subpatch_next(status)
            /\ UNCHANGED <<force_recreate, wrapped, visible, live_data, logs,
                           exit_code>>
       \/ Raises("PATCH", sub_url, port_app_config)
    /\ UNCHANGED <<wh_vars, bp_vars, run_vars, main_vars, diff_vars, procs, aws_vars>>

\* _retry_config_update, the delete of the fallback.
_retry_config_update_delete ==
    /\ pc = "delete"
    /\ \/ \E status \in WriteStatuses :
            /\ calls' = Append(calls, Call("DELETE", integ_url, EmptyDoc,
                                           WriteResponse(status)))
            /\ stored' = IF Accepted(status) THEN Absent ELSE stored
            /\ logs' = IF delete_next(status) = "returned"
                       THEN Append(logs, "Delete failed") ELSE logs
            /\ pc' = delete_next(status)
            /\ UNCHANGED <<force_recreate, wrapped, visible, live_data, exit_code>>
       \/ Raises("DELETE", integ_url, EmptyDoc)
    /\ UNCHANGED <<wh_vars, bp_vars, run_vars, main_vars, diff_vars, procs, aws_vars>>

\* main after setup_port_resources returned: the AWS step, which raises
\* PortSetupError (exit 1) if the deployment fails, then the summary.
main_exit_code(deployed) == IF deployed THEN 0 ELSE 1

\* Where main stands when it reaches the AWS step: with --verify-mappings
\* the drift check comes first.
main_at(verify) == IF verify THEN "verified" ELSE "returned"

main ==
    /\ pc = main_at(args_verify_mappings)
    /\ \E deployed \in BOOLEAN : exit_code' = main_exit_code(deployed)
    /\ pc' = "exited"
    /\ UNCHANGED <<force_recreate, wrapped, stored, visible, live_data, calls, logs>>
    /\ UNCHANGED <<wh_vars, bp_vars, run_vars, main_vars, diff_vars, procs, aws_vars>>

\* The remote: an accepted write becomes visible to reads.
Propagate ==
    /\ visible # stored
    /\ visible' = stored
    /\ UNCHANGED <<pc, force_recreate, wrapped, stored, live_data, calls, logs,
                   exit_code>>
    /\ UNCHANGED <<wh_vars, bp_vars, run_vars, main_vars, diff_vars, procs, aws_vars>>

\* A step of the program.
Step ==
    \/ update_integration_config_get
    \/ update_integration_config_patch
    \/ _create_integration
    \/ _verify_config_present
    \/ _retry_config_update_patch
    \/ _retry_config_update_delete
    \/ main

Next == Step \/ Propagate

Spec == Init /\ [][Next]_vars

\* Every request blocks for at most its timeout and then returns or raises,
\* so a run that can take a step takes one; the remote makes each accepted
\* write visible eventually.
FairSpec == Spec /\ WF_vars(Step) /\ WF_vars(Propagate)

----------------------------------------------------------------------------
(* Reading the record of a run *)

NCalls == Len(calls)

\* The i-th request of the run is an `op` on `url`.
IsCall(i, op, url) == i \in 1..NCalls /\ calls[i].op = op /\ calls[i].url = url

\* How many `op` requests on `url` the run has issued.
Count(op, url) == Cardinality({i \in 1..NCalls : IsCall(i, op, url)})

\* The i-th request was answered, with a status below the threshold.
Succeeded(i) ==
    i \in 1..NCalls /\ ~calls[i].raised /\ calls[i].status < HTTP_SUCCESS_THRESHOLD

\* The i-th request raised or was answered with an error status.
FailedCall(i) ==
    i \in 1..NCalls /\ (calls[i].raised \/ calls[i].status >= HTTP_SUCCESS_THRESHOLD)

\* The i-th request is a fetch whose answer holds a non-empty
\* resource-mapping collection.
ShowsMappings(i) ==
    /\ IsCall(i, "GET", integ_url) /\ ~calls[i].raised /\ calls[i].status = 200
    /\ LET doc == IF "integration" \in DOMAIN calls[i].reply
                  THEN calls[i].reply["integration"] ELSE calls[i].reply
       IN  /\ "config" \in DOMAIN doc
           /\ doc["config"].isDict
           /\ Len(doc["config"].resources) > 0

\* The i-th request is a fetch that returned the integration without a
\* non-empty resource-mapping collection.
ShowsEmpty(i) ==
    /\ IsCall(i, "GET", integ_url) /\ ~calls[i].raised /\ calls[i].status = 200
    /\ ~ShowsMappings(i)

\* The i-th request is a fetch that was answered and did not find a
\* non-empty resource-mapping collection (an error status included).
FoundNoMappings(i) ==
    IsCall(i, "GET", integ_url) /\ ~calls[i].raised /\ ~ShowsMappings(i)

\* The initial fetch was answered with `status`.
FirstFetch(status) ==
    IsCall(1, "GET", integ_url) /\ ~calls[1].raised /\ calls[1].status = status

\* update_integration_config has returned or was left by an exception.
ReconcilerDone == pc \in {"returned", "exited"}

----------------------------------------------------------------------------
(* Claims *)

\* C1: when the initial fetch returns 404, the run issues exactly one create
\* request, carrying the desired config, and no other request (no PATCH, no
\* verification re-fetch, no DELETE), with or without force_recreate.
C1_NotFoundCreatesOnce ==
    FirstFetch(404) =>
        /\ NCalls <= 2
        /\ NCalls = 2 =>
             /\ IsCall(2, "POST", create_url)
             /\ calls[2].body.config = port_app_config
        /\ ReconcilerDone => NCalls = 2

C1_Witness ==
    /\ FirstFetch(404) /\ force_recreate /\ pc = "returned"
    /\ IsCall(2, "POST", create_url)

\* The precondition of C2: the integration exists, the update succeeds,
\* strict verification is on and the re-fetch shows empty mappings.
C2_Scenario ==
    /\ force_recreate
    /\ FirstFetch(200)
    /\ IsCall(2, "PATCH", integ_url) /\ Succeeded(2)
    /\ ShowsEmpty(3)

\* C2 as stated, read for the runs in which every request is answered (none
\* raises): in that scenario the reconciler issues the subresource PATCH and
\* re-verifies, and if the re-verification shows empty mappings too it
\* issues one delete followed by one create, then stops.
C2_Original ==
    (C2_Scenario /\ ReconcilerDone /\ \A i \in 1..NCalls : ~calls[i].raised) =>
        /\ IsCall(4, "PATCH", sub_url)
        /\ IsCall(5, "GET", integ_url)
        /\ ShowsEmpty(5) =>
             /\ NCalls = 7
             /\ IsCall(6, "DELETE", integ_url)
             /\ IsCall(7, "POST", create_url)

\* C2 amended: in that scenario the reconciler issues the subresource PATCH
\* and, if that PATCH succeeds, re-verifies; if the re-verification shows
\* empty mappings too it issues exactly one delete and, if the delete
\* succeeds, exactly one create after it, and then stops.
C2_EscalationOrder ==
    (C2_Scenario /\ ReconcilerDone) =>
        /\ IsCall(4, "PATCH", sub_url)
        /\ Count("PATCH", sub_url) = 1
        /\ Succeeded(4) => IsCall(5, "GET", integ_url)
        /\ ShowsEmpty(5) =>
             /\ IsCall(6, "DELETE", integ_url)
             /\ Count("DELETE", integ_url) = 1
             /\ Succeeded(6) =>
                  /\ NCalls = 7
                  /\ IsCall(7, "POST", create_url)
                  /\ Count("POST", create_url) = 1
             /\ ~Succeeded(6) => (NCalls = 6 /\ Count("POST", create_url) = 0)

C2_Witness ==
    /\ C2_Scenario /\ pc = "returned"
    /\ ShowsEmpty(5) /\ Succeeded(6) /\ IsCall(7, "POST", create_url)

\* C3 as stated: if the update PATCH of an existing integration fails, the
\* run stops: no request follows the PATCH, even with force_recreate.
C3_PatchFailureStops ==
    (IsCall(2, "PATCH", integ_url) /\ FailedCall(2)) => NCalls = 2

\* C3 amended: if the update PATCH is answered with an error status, the
\* run issues no further request without force_recreate, and with
\* force_recreate it goes on to the verification re-fetch, and to the
\* escalation chain only if that finds no non-empty resource mappings; if
\* the PATCH raises, no request follows it.
C3_PatchFailureFallsThrough ==
    (IsCall(2, "PATCH", integ_url) /\ FailedCall(2)) =>
        /\ (calls[2].raised \/ ~force_recreate) => (NCalls = 2 /\ ReconcilerDone)
        /\ (~calls[2].raised /\ force_recreate) =>
             /\ ReconcilerDone => IsCall(3, "GET", integ_url)
             /\ NCalls > 3 => FoundNoMappings(3)
        /\ ~calls[2].raised => logs[2] = "Patch failed"

C3_Witness ==
    /\ IsCall(2, "PATCH", integ_url) /\ FailedCall(2) /\ ~calls[2].raised
    /\ force_recreate /\ IsCall(4, "PATCH", sub_url) /\ pc = "returned"

\* C4 as stated: a delete is issued only with force_recreate and after the
\* full update and the subresource update were each followed by a
\* verification re-fetch that found no non-empty resource mappings.
C4_Original ==
    Count("DELETE", integ_url) > 0 =>
        /\ force_recreate
        /\ IsCall(2, "PATCH", integ_url) /\ FoundNoMappings(3)
        /\ IsCall(4, "PATCH", sub_url) /\ FoundNoMappings(5)

\* C4 amended: a delete is issued only with force_recreate, after the full
\* update was followed by a verification re-fetch that found no non-empty
\* resource mappings and after the subresource update either failed or was
\* followed by a verification re-fetch that found none either.
C4_DeleteOnlyAfterTwoAttempts ==
    \A i \in 1..NCalls :
        IsCall(i, "DELETE", integ_url) =>
            /\ force_recreate
            /\ IsCall(2, "PATCH", integ_url) /\ FoundNoMappings(3)
            /\ IsCall(4, "PATCH", sub_url)
            /\ \/ (FailedCall(4) /\ ~calls[4].raised /\ i = 5)
               \/ (Succeeded(4) /\ FoundNoMappings(5) /\ i = 6)

C4_Witness ==
    /\ IsCall(5, "DELETE", integ_url) /\ FailedCall(4)
    /\ pc = "exited"

\* C5: without force_recreate a run that finds the integration present
\* issues the initial fetch and one update and nothing else, whatever the
\* update's result.
C5_NoOptInNoEscalation ==
    (~force_recreate /\ FirstFetch(200)) =>
        /\ NCalls <= 2
        /\ NCalls = 2 => IsCall(2, "PATCH", integ_url)
        /\ ReconcilerDone => NCalls = 2

C5_Witness ==
    /\ ~force_recreate /\ FirstFetch(200) /\ pc = "returned"
    /\ IsCall(2, "PATCH", integ_url) /\ FailedCall(2)

\* C6: with force_recreate, if the re-fetch after the update shows a
\* non-empty resource-mapping collection the run ends there: the reconciler
\* returns without a subresource PATCH, a delete or a create.
C6_VerifiedStops ==
    (force_recreate /\ IsCall(2, "PATCH", integ_url) /\ ShowsMappings(3)) =>
        /\ NCalls = 3
        /\ ReconcilerDone
        /\ \A i \in 1..Len(logs) :
              logs[i] \notin {"Delete failed", "Create failed", "Unexpected response"}

C6_Witness ==
    /\ force_recreate /\ IsCall(2, "PATCH", integ_url) /\ Succeeded(2)
    /\ ShowsMappings(3) /\ pc = "exited" /\ exit_code = 0

\* C7: if the delete of the recreate step fails, the run ends there and no
\* create request follows it.
C7_DeleteFailureStops ==
    \A i \in 1..NCalls :
        (IsCall(i, "DELETE", integ_url) /\ FailedCall(i)) =>
            /\ i = NCalls
            /\ ReconcilerDone
            /\ Count("POST", create_url) = 0
            /\ ~calls[i].raised => logs[Len(logs)] = "Delete failed"

C7_Witness ==
    /\ IsCall(NCalls, "DELETE", integ_url) /\ FailedCall(NCalls)
    /\ ~calls[NCalls].raised /\ pc = "returned"

\* The reconciler ended in Failed: a create, an update or a delete failed.
ReconcilerFailed ==
    \E i \in 1..NCalls : calls[i].op \in {"POST", "PATCH", "DELETE"} /\ FailedCall(i)

\* C8 as stated: the run exits with a non-zero status whenever the
\* reconciler ended in Failed.
C8_FailedExitsNonZero ==
    (pc = "exited" /\ ReconcilerFailed) => exit_code # 0

\* The bounds of C9 on the requests of one run.
C9_Bounds ==
    /\ Count("GET", integ_url) <= 3
    /\ Count("PATCH", integ_url) <= 1
    /\ Count("PATCH", sub_url) <= 1
    /\ Count("DELETE", integ_url) <= 1
    /\ Count("POST", create_url) <= 1
    /\ NCalls <= 7

\* C9: every reconciler run terminates, whatever the remote answers, with at
\* most one subresource PATCH, one delete and one create, and without
\* repeating a request in a loop.
C9_Terminates == []C9_Bounds /\ <>(pc = "exited")

C9_Witness ==
    /\ pc = "exited" /\ NCalls = 7
    /\ Count("PATCH", sub_url) = 1 /\ Count("DELETE", integ_url) = 1
    /\ Count("POST", create_url) = 1

\* Every request of the run succeeded at the transport level: none raised,
\* every write was accepted and every fetch answered 200 or 404.
AllSucceeded ==
    \A i \in 1..NCalls :
        /\ ~calls[i].raised
        /\ IF calls[i].op = "GET" THEN calls[i].status \in {200, 404}
           ELSE calls[i].status < HTTP_SUCCESS_THRESHOLD

\* The remote holds the integration with the desired config.
Converged ==
    /\ stored.present
    /\ "config" \in DOMAIN stored.doc
    /\ stored.doc["config"] = port_app_config
    /\ Len(stored.doc["config"].resources) > 0

\* C10: with force_recreate, against a remote where every request succeeds
\* and accepted writes become visible eventually, the run terminates with
\* the remote integration present and holding the desired config.
C10_Converges ==
    /\ [](force_recreate /\ ReconcilerDone /\ AllSucceeded => Converged)
    /\ <>(pc = "exited")

C10_Witness ==
    /\ force_recreate /\ pc = "exited" /\ AllSucceeded /\ Converged
    /\ NCalls = 7 /\ visible = stored


----------------------------------------------------------------------------
(* The webhook stage: create_or_resolve_port_webhook, then the mappings     *)

\* The webhook references of the runs: absent, bare tokens, identifiers that
\* are no tokens, partial URLs and full URLs on and off the ingest base.
WebhookRefs ==
    { <<>>,
      <<"a", "b", "c", "d", "e", "f", "1", "2", "3", "4">>,
      <<"a", "b", "c", "d", "e", "f", "1", "2", "3">>,
      <<"m", "y", "_", "w", "e", "b", "h", "o", "o", "k", "_", "1">>,
      <<"/", "w", "e", "b", "h", "o", "o", "k", "s", "/", "a", "b", "c", "d", "e", "f", "1", "2", "3", "4">>,
      <<"i", ".", "i", "o", "/", "w", "e", "b", "h", "o", "o", "k", "s", "/", "a", "b", "c", "d", "e", "f", "1", "2", "3", "4", "?", "x", "=", "1">>,
      <<"/", "w", "e", "b", "h", "o", "o", "k", "s", "/", "a", "b", "c", "/", "d", "e", "f">>,
      <<"/", "w", "e", "b", "h", "o", "o", "k", "s", "/", "?", "x">>,
      <<"/", "w", "e", "b", "h", "o", "o", "k", "s", "/">>,
      <<"h", "t", "t", "p", "s", ":", "/", "/", "i", ".", "i", "o", "/", "a", "b", "c", "d", "e", "f", "1", "2", "3", "4">>,
      <<"h", "t", "t", "p", "s", ":", "/", "/", "o", ".", "i", "o", "/", "w", "e", "b", "h", "o", "o", "k", "s", "/", "a", "b", "c", "d", "e", "f", "1", "2", "3", "4">>,
      <<"h", "t", "t", "p", "s", ":", "/", "/", "o", ".", "i", "o", "/", "h", "o", "o", "k", "s", "/", "x", "y", "z", "/">>,
      <<"h", "t", "t", "p", ":", "/", "/", "o", ".", "i", "o", "/", "k", "?", "x", "=", "1">>,
      <<"h", "t", "t", "p", "s", ":", "/", "/", "i", ".", "i", "o", "x", "/", "a", "b", "c">>,
      <<"h", "t", "t", "p", "s", ":", "/", "/", "i", ".", "i", "o">> }

\* A value at one of the paths the extraction reads: the i-th URL, the i-th
\* key, and values the validators reject.
DigitChars == <<"1", "2", "3", "4", "5", "6", "7", "8", "9">>

UrlValue(i) == JStr(BaseUrl \o <<"/", "u">> \o <<DigitChars[i]>>)

KeyValue(i) == JStr(<<"k", "0", "0", "0", "0", "0", "0", "0", "0">> \o <<DigitChars[i]>>)

ForeignUrl == JStr(<<"h", "t", "t", "p", "s", ":", "/", "/", "o", ".", "i", "o", "/", "u">>)

ShortKey == JStr(<<"k", "1", "2", "3", "4">>)

SymbolKey == JStr(<<"k", "_", "0", "0", "0", "0", "0", "0", "0", "0", "0">>)

\* The bodies the remote answers a webhook lookup or creation with.
WebhookDocs ==
    { EmptyDoc,
      [url |-> UrlValue(1)],
      [integration |-> JDict([url |-> UrlValue(2)])],
      [webhookKey |-> KeyValue(1)],
      [url |-> ForeignUrl, _id |-> KeyValue(5)],
      [id |-> ShortKey],
      [integration |-> ForeignUrl, webhook |-> JDict([webhookKey |-> SymbolKey])],
      [url |-> ForeignUrl] }

\* The requests of the stage.
lookup_url == "webhooks/identifier"

webhooks_url == "webhooks"

mappings_url == "webhooks/webhook_id/mapping"

WhCall(op, url, id, status, reply) ==
    [op |-> op, url |-> url, id |-> id, raised |-> FALSE,
     status |-> status, reply |-> reply]

WhRaisedCall(op, url, id) ==
    [op |-> op, url |-> url, id |-> id, raised |-> TRUE,
     status |-> 0, reply |-> EmptyDoc]

\* An exception of a webhook request reaches main's handler, which exits 1.
WhRaises(op, url, id) ==
    /\ wh_calls' = Append(wh_calls, WhRaisedCall(op, url, id))
    /\ pc' = "exited"
    /\ exit_code' = 1
    /\ UNCHANGED <<args_webhook, args_ingest_base_url, response_data, webhook_url, error>>

\* resolve_existing_webhook's result: the extraction on a 200, else None.
lookup_result(status, reply, ingest_base_url) ==
    IF status = 200
    THEN extract_webhook_key_from_response(reply, ingest_base_url)
    ELSE <<>>

\* Faulty variant of create_webhook_error: a response with nothing to
\* extract is no error.
create_webhook_error_only_status(status, url) ==
    IF IsError(status) THEN "Failed to create webhook" ELSE NoError

\* The PortSetupError create_webhook raises, if any.
create_webhook_error(status, url) ==
    IF IsError(status) THEN "Failed to create webhook"
    ELSE IF url = <<>> THEN "Created webhook but ID not found in response"
    ELSE NoError


\* A run that starts at the webhook stage, the integration absent.
WebhookInit ==
    /\ pc = "webhook"
    /\ force_recreate = FALSE
    /\ wrapped = FALSE
    /\ stored = Absent
    /\ visible = stored
    /\ live_data = EmptyDoc
    /\ calls = <<>>
    /\ logs = <<>>
    /\ exit_code = 0
    /\ args_webhook \in WebhookRefs
    /\ args_ingest_base_url \in IngestBaseUrls
    /\ response_data = JDict(EmptyDoc)
    /\ webhook_url = <<>>
    /\ wh_calls = <<>>
    /\ error = NoError
    /\ BlueprintsIdle
    /\ FirstRun
    /\ MainIdle
    /\ DiffIdle
    /\ Alone
    /\ AwsIdle

\* create_or_resolve_port_webhook up to its first request: a full URL or a
\* bare token is answered at once.
create_or_resolve_port_webhook ==
    /\ pc = "webhook"
    /\ IF needs_lookup(args_webhook)
       THEN /\ pc' = "lookup"
            /\ UNCHANGED webhook_url
       ELSE /\ pc' = "mappings"
            /\ webhook_url' = direct_webhook_url(args_webhook, args_ingest_base_url)
    /\ UNCHANGED <<args_webhook, args_ingest_base_url, response_data, wh_calls, error, exit_code>>
    /\ UNCHANGED <<force_recreate, wrapped, stored, visible, live_data, calls, logs>>
    /\ UNCHANGED <<bp_vars, run_vars, main_vars, diff_vars, procs, aws_vars>>

\* resolve_existing_webhook and the branch of create_or_resolve_port_webhook
\* on its result.
resolve_existing_webhook ==
    /\ pc = "lookup"
    /\ LET identifier == normalize_webhook_identifier(args_webhook)
       IN  \/ \E status \in {200, 404, 500}, doc \in WebhookDocs :
                LET reply == IF status = 200 THEN doc ELSE EmptyDoc
                    url == lookup_result(status, JDict(reply), args_ingest_base_url)
                IN  /\ wh_calls' = Append(wh_calls,
                            WhCall("GET", lookup_url, identifier, status, reply))
                    /\ webhook_url' = url
                    /\ pc' = IF url # <<>> THEN "mappings" ELSE "create_webhook"
                    /\ UNCHANGED <<args_webhook, args_ingest_base_url, response_data, error,
                                   exit_code>>
           \/ WhRaises("GET", lookup_url, identifier)
    /\ UNCHANGED <<force_recreate, wrapped, stored, visible, live_data, calls, logs>>
    /\ UNCHANGED <<bp_vars, run_vars, main_vars, diff_vars, procs, aws_vars>>

\* create_webhook; its PortSetupError reaches main's handler, which logs it
\* and exits 1.
create_webhook ==
    /\ pc = "create_webhook"
    /\ LET identifier == normalize_webhook_identifier(args_webhook)
       IN  \/ \E status \in WriteStatuses, doc \in WebhookDocs :
                LET reply == IF IsError(status) THEN EmptyDoc ELSE doc
                    url == IF IsError(status) THEN <<>>
                           ELSE extract_webhook_key_from_response(
                                    JDict(reply), args_ingest_base_url)
                    raised == create_webhook_error(status, url)
                IN  /\ wh_calls' = Append(wh_calls,
                            WhCall("POST", webhooks_url, identifier, status, reply))
                    /\ error' = raised
                    /\ webhook_url' = url
                    /\ pc' = IF raised # NoError THEN "exited" ELSE "mappings"
                    /\ exit_code' = IF raised # NoError THEN 1 ELSE exit_code
                    /\ UNCHANGED <<args_webhook, args_ingest_base_url, response_data>>
           \/ WhRaises("POST", webhooks_url, identifier)
    /\ UNCHANGED <<force_recreate, wrapped, stored, visible, live_data, calls, logs>>
    /\ UNCHANGED <<bp_vars, run_vars, main_vars, diff_vars, procs, aws_vars>>

\* _apply_webhook_mappings with the identifier setup_port_resources passes
\* it; a failure of the request is logged and the run goes on.
_apply_webhook_mappings ==
    /\ pc = "mappings"
    /\ LET webhook_id == normalize_webhook_identifier(args_webhook)
       IN  IF webhook_id = <<>>
           THEN UNCHANGED wh_calls
           ELSE \/ \E status \in WriteStatuses :
                     wh_calls' = Append(wh_calls,
                         WhCall("POST", mappings_url, webhook_id, status, EmptyDoc))
                \/ wh_calls' = Append(wh_calls,
                         WhRaisedCall("POST", mappings_url, webhook_id))
    /\ pc' = "fetch"
    /\ UNCHANGED <<args_webhook, args_ingest_base_url, response_data, webhook_url, error, exit_code>>
    /\ UNCHANGED <<force_recreate, wrapped, stored, visible, live_data, calls, logs>>
    /\ UNCHANGED <<bp_vars, run_vars, main_vars, diff_vars, procs, aws_vars>>

WebhookNext ==
    \/ create_or_resolve_port_webhook
    \/ resolve_existing_webhook
    \/ create_webhook
    \/ _apply_webhook_mappings
    \/ update_integration_config_get
    \/ _create_integration
    \/ main

WebhookSpec == WebhookInit /\ [][WebhookNext]_vars

\* Reading the record of the webhook stage.
NWhCalls == Len(wh_calls)

IsWhCall(i, op, url) ==
    i \in 1..NWhCalls /\ wh_calls[i].op = op /\ wh_calls[i].url = url

\* create_or_resolve_port_webhook returned a URL.
WebhookReturned == pc \notin {"webhook", "lookup", "create_webhook"} /\ error = NoError
                   /\ webhook_url # <<>>


\* The requests create_or_resolve_port_webhook issued: lookups and creations.
IsResolveCall(i) ==
    IsWhCall(i, "GET", lookup_url) \/ IsWhCall(i, "POST", webhooks_url)

\* s with the "/" at its end removed, and what follows its last "/".
WithoutTrailingSlashes(s) ==
    SubSeq(s, 1, CHOOSE n \in 0..Len(s) :
                    /\ n = 0 \/ s[n] # "/"
                    /\ \A m \in (n + 1)..Len(s) : s[m] = "/")

AfterLastSlash(s) ==
    SubSeq(s, 1 + (CHOOSE n \in 0..Len(s) :
                      /\ n = 0 \/ s[n] = "/"
                      /\ \A m \in (n + 1)..Len(s) : s[m] # "/"), Len(s))

HasPrefix(s, prefix) ==
    Len(prefix) <= Len(s) /\ \A n \in 1..Len(prefix) : s[n] = prefix[n]

\* The ingest base as the URLs are built on it.
StrippedBase == WithoutTrailingSlashes(args_ingest_base_url)

\* C13 as stated: whenever create_or_resolve_port_webhook returns a URL, the
\* URL starts with the configured ingest base URL.
C13_Original ==
    WebhookReturned => HasPrefix(webhook_url, args_ingest_base_url)

\* C13: whenever create_or_resolve_port_webhook returns a URL, for every
\* shape of reference and every remote response, the URL starts with the
\* configured ingest base URL stripped of the slashes at its end.
C13_UrlOnStrippedBase ==
    WebhookReturned => HasPrefix(webhook_url, StrippedBase)

\* A full URL on another host was rewritten onto a base configured with a
\* trailing slash.
C13_Witness ==
    /\ WebhookReturned
    /\ args_ingest_base_url = BaseUrlSlash
    /\ is_full_url(args_webhook)
    /\ ~HasPrefix(args_webhook, BaseUrl)
    /\ webhook_url # args_webhook

\* What C14 expects create_or_resolve_port_webhook to return for a full URL
\* or a bare token, on the ingest base `base`.
DirectAnswer(base) ==
    IF is_full_url(args_webhook)
    THEN IF HasPrefix(args_webhook, base) THEN args_webhook
         ELSE base \o Slash \o AfterLastSlash(WithoutTrailingSlashes(args_webhook))
    ELSE base \o Slash \o args_webhook

\* The reference is a full URL or a bare token, and the call returned.
DirectCase ==
    /\ pc # "webhook"
    /\ args_webhook # <<>>
    /\ is_full_url(args_webhook) \/ is_bare_token(args_webhook)

\* C14 as stated: the URLs are built on the ingest base URL as configured.
C14_Original ==
    DirectCase =>
        /\ \A i \in 1..NWhCalls : ~IsResolveCall(i)
        /\ webhook_url = DirectAnswer(args_ingest_base_url)

\* C14: for a full URL or a bare alphanumeric token of length at least 10,
\* create_or_resolve_port_webhook issues no lookup and no creation and
\* returns, with B the ingest base URL stripped of the slashes at its end:
\* the reference itself if it is a full URL starting with B, B plus "/"
\* plus what follows the last "/" of the reference (the slashes at its end
\* set aside) for any other full URL, and B plus "/" plus the token for a
\* bare token.
C14_DirectAnswers ==
    DirectCase =>
        /\ \A i \in 1..NWhCalls : ~IsResolveCall(i)
        /\ webhook_url = DirectAnswer(StrippedBase)

\* A bare token was answered on a base configured with a trailing slash.
C14_Witness ==
    /\ DirectCase
    /\ is_bare_token(args_webhook)
    /\ args_ingest_base_url = BaseUrlSlash
    /\ pc = "exited"

\* C15: on the lookup path a creation request is issued only when the
\* lookup did not find the webhook (its status is not 200); when the lookup
\* finds it, its URL is returned and no creation request is issued.
C15_CreateOnlyWhenNotFound ==
    \A i \in 1..NWhCalls :
        (IsWhCall(i, "GET", lookup_url) /\ ~wh_calls[i].raised
         /\ wh_calls[i].status = 200)
        => /\ \A j \in 1..NWhCalls : ~IsWhCall(j, "POST", webhooks_url)
           /\ webhook_url # <<>>

\* C16: a creation that succeeds at the transport level with a response
\* from which no URL and no identifier can be extracted is a
\* PortSetupError that ends the run with a non-zero exit; no mappings
\* request and no integration request follows.
C16_UnextractableCreationIsFatal ==
    \A i \in 1..NWhCalls :
        (/\ IsWhCall(i, "POST", webhooks_url)
         /\ ~wh_calls[i].raised
         /\ ~IsError(wh_calls[i].status)
         /\ \A k \in 1..Len(UrlPaths) :
               ~valid_url(Walk(JDict(wh_calls[i].reply), UrlPaths[k]), StrippedBase)
         /\ \A k \in 1..Len(KeyPaths) :
               ~valid_key(Walk(JDict(wh_calls[i].reply), KeyPaths[k])))
        => /\ pc = "exited"
           /\ exit_code # 0
           /\ error = "Created webhook but ID not found in response"
           /\ i = NWhCalls
           /\ calls = <<>>

\* A creation answered 201 with a body that holds only a short id.
C16_Witness ==
    /\ NWhCalls = 2
    /\ IsWhCall(2, "POST", webhooks_url)
    /\ wh_calls[2].status = 201
    /\ wh_calls[2].reply = [id |-> ShortKey]
    /\ pc = "exited"


\* "/webhooks/" stands at position n of s.
SegmentAt(s, n) ==
    /\ n + Len(WebhooksSegment) - 1 <= Len(s)
    /\ SubSeq(s, n, n + Len(WebhooksSegment) - 1) = WebhooksSegment

\* What stands in s from position n up to the next "?" or "/".
IdFrom(s, n) ==
    SubSeq(s, n, CHOOSE m \in (n - 1)..Len(s) :
                    /\ \A k \in n..m : s[k] \notin {"?", "/"}
                    /\ m = Len(s) \/ s[m + 1] \in {"?", "/"})

\* The places of s where a "/webhooks/<id>" segment with an <id> starts.
IdSegments(s) ==
    {n \in 1..Len(s) : SegmentAt(s, n) /\ IdFrom(s, n + Len(WebhooksSegment)) # <<>>}

\* What C17 expects of normalize_webhook_identifier.
ExpectedIdentifier(s) ==
    IF s = <<>> THEN DefaultWebhookId
    ELSE IF IdSegments(s) # {}
         THEN IdFrom(s, Min(IdSegments(s)) + Len(WebhooksSegment))
         ELSE s

\* C17: the identifier normalize_webhook_identifier hands to a request is
\* the default for an absent reference, the <id> of a "/webhooks/<id>"
\* segment cut at the first "?" or "/" when the reference contains one, and
\* the reference unchanged in every other case.
C17_Normalize ==
    \A i \in 1..NWhCalls : wh_calls[i].id = ExpectedIdentifier(args_webhook)

\* C18 as stated: every identifier used for the lookup or the creation is
\* alphanumeric and of length at least 10.
C18_Original ==
    \A i \in 1..NWhCalls :
        IsResolveCall(i) =>
            IsAlnum(wh_calls[i].id) /\ Len(wh_calls[i].id) >= MIN_WEBHOOK_ID_LENGTH

\* C18: every identifier used for the lookup or the creation is the default
\* identifier (which is not alphanumeric) for an absent reference, and for
\* a reference that is given either the reference itself or a part of it
\* that follows a "/webhooks/" and holds no "?" and no "/".
C18_IdentifierShapes ==
    \A i \in 1..NWhCalls :
        IsResolveCall(i) =>
            IF args_webhook = <<>>
            THEN wh_calls[i].id = DefaultWebhookId /\ ~IsAlnum(wh_calls[i].id)
            ELSE \/ wh_calls[i].id = args_webhook
                 \/ /\ \E n \in 1..Len(args_webhook) :
                          /\ SegmentAt(args_webhook, n)
                          /\ HasPrefix(SubSeq(args_webhook, n + Len(WebhooksSegment),
                                              Len(args_webhook)), wh_calls[i].id)
                    /\ \A k \in 1..Len(wh_calls[i].id) :
                          wh_calls[i].id[k] \notin {"?", "/"}

\* A webhook was created for a partial URL with a query string.
C18_Witness ==
    /\ NWhCalls >= 2
    /\ IsWhCall(2, "POST", webhooks_url)
    /\ Contains(args_webhook, QuestionMark)
    /\ wh_calls[2].id # <<>>
    /\ ~Contains(wh_calls[2].id, QuestionMark)


----------------------------------------------------------------------------
(* extract_webhook_key_from_response on its own *)

\* The rules of the extraction in the order the code tries them: a path and
\* whether its value is taken as a URL.
Rules ==
    [k \in 1..(Len(UrlPaths) + Len(KeyPaths)) |->
        IF k <= Len(UrlPaths)
        THEN [path |-> UrlPaths[k], url |-> TRUE]
        ELSE [path |-> KeyPaths[k - Len(UrlPaths)], url |-> FALSE]]

\* The most fields a response document of the runs holds.
MaxFields == 2

\* The values a document may hold at the path of rule k: one the rule's
\* validator accepts, and ones it rejects.
FieldValues(k) ==
    IF Rules[k].url THEN {UrlValue(k), ForeignUrl, JOther}
    ELSE {KeyValue(k), ShortKey, SymbolKey}

\* The ways to fill at most MaxFields of the paths.
Fillings ==
    UNION { {f \in [ks -> UNION {FieldValues(k) : k \in DOMAIN Rules}] :
                \A k \in ks : f[k] \in FieldValues(k)} :
            ks \in {ks \in SUBSET DOMAIN Rules : Cardinality(ks) <= MaxFields} }

\* The document with the values of f at their paths.
Document(f) ==
    JDict([key \in {Rules[k].path[1] : k \in DOMAIN f} |->
        IF \E k \in DOMAIN f : Rules[k].path = <<key>>
        THEN f[CHOOSE k \in DOMAIN f : Rules[k].path = <<key>>]
        ELSE JDict([sub \in {Rules[k].path[2] :
                                k \in {j \in DOMAIN f : Rules[j].path[1] = key}} |->
                 f[CHOOSE k \in DOMAIN f : Rules[k].path = <<key, sub>>]])])

\* The response documents of the runs: the fillings, a body that is no
\* object, and one whose "integration" is a string.
ResponseDocuments ==
    {Document(f) : f \in Fillings}
        \cup {JOther, JDict([integration |-> UrlValue(2), id |-> KeyValue(7)])}

ExtractInit ==
    /\ pc = "extract"
    /\ response_data \in ResponseDocuments
    /\ args_ingest_base_url \in IngestBaseUrls
    /\ args_webhook = <<>>
    /\ webhook_url = <<>>
    /\ wh_calls = <<>>
    /\ error = NoError
    /\ force_recreate = FALSE
    /\ wrapped = FALSE
    /\ stored = Absent
    /\ visible = stored
    /\ live_data = EmptyDoc
    /\ calls = <<>>
    /\ logs = <<>>
    /\ exit_code = 0
    /\ BlueprintsIdle
    /\ FirstRun
    /\ MainIdle
    /\ DiffIdle
    /\ Alone
    /\ AwsIdle

\* A call of extract_webhook_key_from_response.
extract_call ==
    /\ pc = "extract"
    /\ webhook_url' = extract_webhook_key_from_response(response_data,
                                                        args_ingest_base_url)
    /\ pc' = "extracted"
    /\ UNCHANGED <<args_webhook, args_ingest_base_url, response_data, wh_calls, error>>
    /\ UNCHANGED <<force_recreate, wrapped, stored, visible, live_data, calls, logs,
                   exit_code>>
    /\ UNCHANGED <<bp_vars, run_vars, main_vars, diff_vars, procs, aws_vars>>

ExtractSpec == ExtractInit /\ [][extract_call]_vars

\* The rules whose path resolves in the document to a value their validator
\* accepts.
Resolves(document, path) ==
    /\ document.t = "dict"
    /\ path[1] \in DOMAIN document.d
    /\ Len(path) = 2 =>
          /\ document.d[path[1]].t = "dict"
          /\ path[2] \in DOMAIN document.d[path[1]].d

ValueAt(document, path) ==
    IF Len(path) = 1 THEN document.d[path[1]] ELSE document.d[path[1]].d[path[2]]

Matching ==
    {k \in DOMAIN Rules :
        /\ Resolves(response_data, Rules[k].path)
        /\ LET value == ValueAt(response_data, Rules[k].path)
           IN  /\ value.t = "str"
               /\ IF Rules[k].url THEN HasPrefix(value.s, StrippedBase)
                  ELSE Len(value.s) >= MIN_WEBHOOK_ID_LENGTH /\ IsAlnum(value.s)}

FirstMatch == ValueAt(response_data, Rules[Min(Matching)].path).s

\* C19 as stated: the result is the value of the first rule that matches.
C19_Original ==
    pc = "extracted" =>
        webhook_url = IF Matching = {} THEN <<>> ELSE FirstMatch

\* C19: extract_webhook_key_from_response finds the first rule, in rule
\* order, whose path resolves in the document and whose validator passes;
\* it returns that rule's value for a direct-URL rule, the ingest base URL
\* stripped of the slashes at its end plus "/" plus that value for an
\* identifier rule, and not-found when no rule matches. Every direct-URL
\* rule precedes every identifier rule.
C19_FirstRule ==
    /\ \A j, k \in DOMAIN Rules : (Rules[j].url /\ ~Rules[k].url) => j < k
    /\ pc = "extracted" =>
          webhook_url = IF Matching = {} THEN <<>>
                        ELSE IF Rules[Min(Matching)].url THEN FirstMatch
                        ELSE StrippedBase \o Slash \o FirstMatch

\* A document with a valid URL field and a valid identifier field yielded
\* the URL field.
C19_Witness ==
    /\ pc = "extracted"
    /\ \E j, k \in Matching : Rules[j].url /\ ~Rules[k].url
    /\ webhook_url = FirstMatch


----------------------------------------------------------------------------
(* The blueprint pass: ensure_blueprints_exist, and setup.py's loop *)

\* blueprint.get("identifier") of a blueprint without one.
NoIdentifier == ""

\* The blueprint lists of the runs.
BlueprintLists ==
    { <<"service", "function">>,
      <<"service", NoIdentifier, "function">>,
      <<NoIdentifier, "service">>,
      <<"service", "function", "queue">> }

BlueprintIds == {"service", "function", "queue"}

BpCall(op, id, status) == [op |-> op, id |-> id, raised |-> FALSE, status |-> status]

BpRaisedCall(op, id) == [op |-> op, id |-> id, raised |-> TRUE, status |-> 0]

\* The statuses the remote answers an existence check with: 200 for a
\* blueprint it holds, 404 for one it does not, 500 when it fails.
BlueprintGetStatuses(id) == {IF id \in bp_exists THEN 200 ELSE 404, 500}

\* The statuses the remote answers a creation with: it refuses a blueprint
\* it holds.
BlueprintPostStatuses(id) == IF id \in bp_exists THEN {409, 500} ELSE WriteStatuses

\* An exception of a blueprint request leaves ensure_blueprints_exist and
\* reaches main's handler, which exits 1.
BpRaises(op, id) ==
    /\ bp_calls' = Append(bp_calls, BpRaisedCall(op, id))
    /\ pc' = "exited"
    /\ exit_code' = 1
    /\ UNCHANGED <<blueprints, bp_index, bp_exists>>

\* Faulty variant of blueprint_next: the creation is requested only after a
\* 404; any other status moves on to the next blueprint.
blueprint_next_only_404(status) ==
    IF status = 404 THEN "bp_create" ELSE "blueprints"

\* Faulty variant of blueprint_next: the creation is requested whatever the
\* existence check answered.
blueprint_next_always_create(status) == "bp_create"

\* The loop after the existence check: next blueprint on a 200, else the
\* creation.
blueprint_next(status) ==
    IF status = 200 THEN "blueprints" ELSE "bp_create"

BlueprintInit ==
    /\ pc = "blueprints"
    /\ blueprints \in BlueprintLists
    /\ bp_index = 1
    /\ bp_exists \in SUBSET {"service", "function"}
    /\ bp_calls = <<>>
    /\ force_recreate = FALSE
    /\ wrapped = FALSE
    /\ stored = Absent
    /\ visible = stored
    /\ live_data = EmptyDoc
    /\ calls = <<>>
    /\ logs = <<>>
    /\ exit_code = 0
    /\ WebhookIdle
    /\ FirstRun
    /\ MainIdle
    /\ DiffIdle
    /\ Alone
    /\ AwsIdle

\* One turn of the loop up to its first request: a blueprint without an
\* identifier is skipped, the others get the existence check.
ensure_blueprints_exist_get ==
    /\ pc = "blueprints"
    /\ bp_index <= Len(blueprints)
    /\ LET identifier == blueprints[bp_index]
       IN  IF identifier = NoIdentifier
           THEN /\ bp_index' = bp_index + 1
                /\ UNCHANGED <<pc, exit_code, blueprints, bp_exists, bp_calls>>
           ELSE \/ \E status \in BlueprintGetStatuses(identifier) :
                     /\ bp_calls' = Append(bp_calls, BpCall("GET", identifier, status))
                     /\ pc' = blueprint_next(status)
                     /\ bp_index' = IF blueprint_next(status) = "blueprints"
                                    THEN bp_index + 1 ELSE bp_index
                     /\ UNCHANGED <<exit_code, blueprints, bp_exists>>
                \/ BpRaises("GET", identifier)
    /\ UNCHANGED <<force_recreate, wrapped, stored, visible, live_data, calls, logs>>
    /\ UNCHANGED <<wh_vars, run_vars, main_vars, diff_vars, procs, aws_vars>>

\* The creation of the blueprint the check did not find; its status is
\* only logged.
ensure_blueprints_exist_post ==
    /\ pc = "bp_create"
    /\ LET identifier == blueprints[bp_index]
       IN  \/ \E status \in BlueprintPostStatuses(identifier) :
                /\ bp_calls' = Append(bp_calls, BpCall("POST", identifier, status))
                /\ bp_exists' = IF Accepted(status)
                                THEN bp_exists \cup {identifier} ELSE bp_exists
                /\ bp_index' = bp_index + 1
                /\ pc' = "blueprints"
                /\ UNCHANGED <<exit_code, blueprints>>
           \/ BpRaises("POST", identifier)
    /\ UNCHANGED <<force_recreate, wrapped, stored, visible, live_data, calls, logs>>
    /\ UNCHANGED <<wh_vars, run_vars, main_vars, diff_vars, procs, aws_vars>>

\* The end of the list: ensure_blueprints_exist returns.
ensure_blueprints_exist_return ==
    /\ pc = "blueprints"
    /\ bp_index > Len(blueprints)
    /\ pc' = "bp_done"
    /\ UNCHANGED <<force_recreate, wrapped, stored, visible, live_data, calls, logs,
                   exit_code>>
    /\ UNCHANGED <<wh_vars, bp_vars, run_vars, main_vars, diff_vars, procs, aws_vars>>

\* The script is run a second time with the same arguments and files,
\* starting at `start`; the remote is as the first run left it.
Rerun(start) ==
    /\ run = 1
    /\ pc \in {"bp_done", "exited"}
    /\ run' = 2
    /\ prev' = [calls |-> calls, bp_calls |-> bp_calls]
    /\ pc' = start
    /\ calls' = <<>>
    /\ logs' = <<>>
    /\ live_data' = EmptyDoc
    /\ exit_code' = 0
    /\ bp_calls' = <<>>
    /\ bp_index' = 1
    /\ UNCHANGED <<force_recreate, wrapped, stored, visible, blueprints, bp_exists>>
    /\ UNCHANGED <<wh_vars, main_vars, diff_vars, procs, aws_vars>>

BlueprintNext ==
    \/ ensure_blueprints_exist_get
    \/ ensure_blueprints_exist_post
    \/ ensure_blueprints_exist_return
    \/ Rerun("blueprints")

BlueprintSpec == BlueprintInit /\ [][BlueprintNext]_vars


\* The requests of log `cs` that are an `op`.
Requests(cs, op) == {i \in 1..Len(cs) : cs[i].op = op}

\* Every request of log `cs` was answered, the existence checks with 200 or
\* 404 and the creations with a success status.
AllAnswered(cs) ==
    \A i \in 1..Len(cs) :
        /\ ~cs[i].raised
        /\ cs[i].op = "GET" => cs[i].status \in {200, 404}
        /\ cs[i].op = "POST" => ~IsError(cs[i].status)

\* Every existence check of log `cs` was answered with 200 or 404.
ChecksAnswered(cs) ==
    \A i \in Requests(cs, "GET") : ~cs[i].raised /\ cs[i].status \in {200, 404}

RECURSIVE WithIdentifier(_, _)
WithIdentifier(bps, n) ==
    IF n > Len(bps) THEN <<>>
    ELSE IF bps[n] = NoIdentifier THEN WithIdentifier(bps, n + 1)
    ELSE <<bps[n]>> \o WithIdentifier(bps, n + 1)

\* The identifiers log `cs` holds an existence check for, in order.
RECURSIVE Checked(_, _)
Checked(cs, n) ==
    IF n > Len(cs) THEN <<>>
    ELSE IF cs[n].op = "GET" THEN <<cs[n].id>> \o Checked(cs, n + 1)
    ELSE Checked(cs, n + 1)

\* C20: when the blueprint pass is over, whatever failed on the way (an
\* error status or a transport failure of an existence check or of a
\* creation), every blueprint that has an identifier got its existence
\* check, in list order.
C20_FailureNeverAborts ==
    pc \in {"bp_done", "exited"} =>
        Checked(bp_calls, 1) = WithIdentifier(blueprints, 1)

\* The part of C20 the code keeps: the same, for passes whose requests were
\* all answered, with whatever status.
C20_ErrorStatusNeverAborts ==
    (pc \in {"bp_done", "exited"} /\ \A i \in 1..Len(bp_calls) : ~bp_calls[i].raised)
        => Checked(bp_calls, 1) = WithIdentifier(blueprints, 1)


----------------------------------------------------------------------------
(* Two runs of the reconciler in a row *)

\* A step of the program against a remote whose reads show every write it
\* accepted before.
ConsistentStep == visible = stored /\ Step

TwiceNext ==
    \/ ConsistentStep
    \/ Propagate
    \/ Rerun("fetch")

TwiceSpec == Init /\ [][TwiceNext]_vars

\* Every request of log `cs` was answered without an error: the reads with
\* 200 or 404, the writes with a success status.
NoFailure(cs) ==
    \A i \in 1..Len(cs) :
        /\ ~cs[i].raised
        /\ IF cs[i].op = "GET" THEN cs[i].status \in {200, 404}
           ELSE ~IsError(cs[i].status)

\* The ReconciliationOutcome category of a finished run, read off its
\* requests.
Outcome(cs) ==
    IF ~NoFailure(cs) THEN "Failed"
    ELSE IF Requests(cs, "DELETE") # {} THEN "UpdatedUnverifiedRecreated"
    ELSE IF Requests(cs, "PATCH") # {}
         THEN IF Cardinality(Requests(cs, "GET")) > 1 THEN "UpdatedAndVerified"
              ELSE "Updated"
    ELSE IF Requests(cs, "POST") # {} THEN "Created"
    ELSE "Failed"

\* The second run is over and no request of either run failed.
BothRunsDone ==
    /\ run = 2
    /\ pc \in {"returned", "exited"}
    /\ NoFailure(prev.calls)
    /\ NoFailure(calls)

\* The first run found the integration.
FoundAtFirst == prev.calls # <<>> /\ prev.calls[1].status = 200

\* C11 as stated: two runs in a row end in the same category, whether the
\* integration was absent or present before the first.
C11_Original ==
    BothRunsDone => Outcome(calls) = Outcome(prev.calls)

\* C11: two runs in a row with the same desired config, no request failing
\* and every read showing the writes accepted before it, end in the same
\* category when the integration was present before the first run; when it
\* was absent, the first run ends Created and the second Updated, or
\* UpdatedAndVerified with force_recreate.
C11_SameOutcomeWhenPresent ==
    BothRunsDone =>
        IF FoundAtFirst
        THEN /\ Outcome(calls) = Outcome(prev.calls)
             /\ Outcome(calls) = IF force_recreate THEN "UpdatedAndVerified"
                                 ELSE "Updated"
        ELSE /\ Outcome(prev.calls) = "Created"
             /\ Outcome(calls) = IF force_recreate THEN "UpdatedAndVerified"
                                 ELSE "Updated"

\* Two runs with force_recreate on an integration that held no config.
C11_Witness ==
    /\ BothRunsDone
    /\ FoundAtFirst
    /\ force_recreate
    /\ pc = "exited"
    /\ Outcome(prev.calls) = "UpdatedAndVerified"


----------------------------------------------------------------------------
(* The blueprint pass, request by request *)

\* The i-th blueprint request is an answered existence check.
IsCheck(i) ==
    i \in 1..Len(bp_calls) /\ bp_calls[i].op = "GET" /\ ~bp_calls[i].raised

\* The i-th blueprint request is the creation of the blueprint the request
\* before it checked.
IsCreationAfterCheck(i) ==
    /\ i \in 2..Len(bp_calls)
    /\ bp_calls[i].op = "POST"
    /\ IsCheck(i - 1)
    /\ bp_calls[i - 1].id = bp_calls[i].id

\* C21 as stated: a creation is requested only after an existence check that
\* reported the blueprint absent (404).
C21_Original ==
    \A i \in Requests(bp_calls, "POST") :
        IsCreationAfterCheck(i) /\ bp_calls[i - 1].status = 404

\* C21: a blueprint without an identifier causes no request; for a blueprint
\* with one, the creation is requested exactly when its existence check is
\* answered with a status other than 200 (404 or an error status alike);
\* after a 200 no creation is requested and the pass goes on.
C21_CreationUnlessFound ==
    /\ \A i \in 1..Len(bp_calls) : bp_calls[i].id # NoIdentifier
    /\ \A i \in Requests(bp_calls, "POST") :
          IsCreationAfterCheck(i) /\ bp_calls[i - 1].status # 200
    /\ \A i \in 1..Len(bp_calls) :
          IsCheck(i) =>
              IF bp_calls[i].status = 200
              THEN /\ i < Len(bp_calls) => bp_calls[i + 1].op = "GET"
                   /\ i = Len(bp_calls) => pc \in {"blueprints", "bp_done"}
              ELSE /\ i < Len(bp_calls) => IsCreationAfterCheck(i + 1)
                   /\ i = Len(bp_calls) => pc = "bp_create"

\* An existence check answered 500 was followed by a creation, and the pass
\* went on to the next blueprint, through one without an identifier.
C21_Witness ==
    /\ NoIdentifier \in {blueprints[n] : n \in 1..Len(blueprints)}
    /\ Len(bp_calls) >= 3
    /\ IsCheck(1) /\ bp_calls[1].status = 500
    /\ IsCreationAfterCheck(2)
    /\ IsCheck(3) /\ bp_calls[3].status = 200
    /\ pc = "bp_done"


----------------------------------------------------------------------------
(* The diff of two configs: _compare_configs and its helpers *)

\* bool(value)
Truthy(value) ==
    IF value.t = "dict" THEN DOMAIN value.d # {}
    ELSE IF value.t = "str" THEN value.s # <<>>
    ELSE IF value.t = "list" THEN value.items # <<>>
    ELSE FALSE

\* The characters of the names in code-point order, and the order of
\* sorted() on strings.
CodePoints == <<"0", "1", "2", "3", "4", "5", "6", "7", "8", "9", "_",
                "a", "b", "c", "d", "e", "f", "g", "h", "i", "j", "k", "l", "m",
                "n", "o", "p", "q", "r", "s", "t", "u", "v", "w", "x", "y", "z">>

CodePoint(ch) == CHOOSE n \in DOMAIN CodePoints : CodePoints[n] = ch

RECURSIVE StrLess(_, _)
StrLess(a, b) ==
    IF b = <<>> THEN FALSE
    ELSE IF a = <<>> THEN TRUE
    ELSE IF Head(a) # Head(b) THEN CodePoint(Head(a)) < CodePoint(Head(b))
    ELSE StrLess(Tail(a), Tail(b))

\* sorted(names)
RECURSIVE sorted(_)
sorted(names) ==
    IF names = {} THEN <<>>
    ELSE LET least == CHOOSE a \in names : \A b \in names \ {a} : StrLess(a, b)
         IN  <<least>> \o sorted(names \ {least})

\* The orders in which a for loop may visit a set of keys: the iteration
\* order of a Python set of strings depends on the hash seed of the process.
RECURSIVE IterationOrders(_)
IterationOrders(keys) ==
    IF keys = {} THEN {<<>>}
    ELSE UNION { {<<k>> \o rest : rest \in IterationOrders(keys \ {k})} : k \in keys }

\* The entries of the result. Fields that an entry does not print are
\* empty.
KindEntry(tag, kind) ==
    [tag |-> tag, kind |-> kind, key |-> "", live |-> JNull, local |-> JNull]

KeyEntry(tag, kind, key) ==
    [tag |-> tag, kind |-> kind, key |-> key, live |-> JNull, local |-> JNull]

DiffEntry(tag, kind, key, live, local) ==
    [tag |-> tag, kind |-> kind, key |-> key, live |-> live, local |-> local]

\* The call raised (AttributeError or TypeError) instead of returning.
Raised == [raised |-> TRUE, diffs |-> <<>>]

Returned(diffs) == [raised |-> FALSE, diffs |-> diffs]

\* cfg.get("resources") or []
resources_of(cfg) ==
    IF Truthy(Get(cfg.d, "resources", JNull)) THEN Get(cfg.d, "resources", JNull)
    ELSE JList(<<>>)

\* index_by_kind raises: the resources are no list, one of them is no
\* object, or a kind is no string.
index_raises(resources) ==
    \/ resources.t # "list"
    \/ \E n \in 1..Len(resources.items) :
          \/ resources.items[n].t # "dict"
          \/ /\ Truthy(Get(resources.items[n].d, "kind", JNull))
             /\ Get(resources.items[n].d, "kind", JNull).t # "str"

\* index_by_kind: the resources that have a kind, the last one of a kind.
index_by_kind(resources) ==
    LET withKind == {n \in 1..Len(resources.items) :
                        Truthy(Get(resources.items[n].d, "kind", JNull))}
        kindAt(n) == resources.items[n].d["kind"].s
    IN  [kind \in {kindAt(n) : n \in withKind} |->
            resources.items[CHOOSE n \in withKind :
                            /\ kindAt(n) = kind
                            /\ \A m \in withKind : kindAt(m) = kind => m <= n]]


\* resource.get("port", {}).get("entity", {}) raises: "port" or "entity"
\* is there and is no object.
get_mappings_raises(resource) ==
    LET port == Get(resource.d, "port", JDict(EmptyDoc))
    IN  \/ port.t # "dict"
        \/ Get(port.d, "entity", JDict(EmptyDoc)).t # "dict"

\* get_mappings
get_mappings(resource) ==
    Get(Get(Get(resource.d, "port", JDict(EmptyDoc)).d,
            "entity", JDict(EmptyDoc)).d,
        "mappings", JDict(EmptyDoc))

\* mappings.get(section, {}) or {}
section_of(mappings, section) ==
    IF Truthy(Get(mappings.d, section, JDict(EmptyDoc)))
    THEN Get(mappings.d, section, JDict(EmptyDoc))
    ELSE JDict(EmptyDoc)

MappingFields == <<"identifier", "title", "blueprint">>

\* Faulty variant of _compare_mapping_fields: a field that local does not
\* set is reported, whatever live holds.
_compare_mapping_fields_null_differs(kind, local_mappings, live_mappings) ==
    LET entry(field) ==
            IF Get(local_mappings.d, field, JNull) # Get(live_mappings.d, field, JNull)
               \/ Get(local_mappings.d, field, JNull) = JNull
            THEN <<DiffEntry("DIFF", kind, field, Get(live_mappings.d, field, JNull),
                             Get(local_mappings.d, field, JNull))>>
            ELSE <<>>
    IN  entry(MappingFields[1]) \o entry(MappingFields[2]) \o entry(MappingFields[3])

\* Faulty variant of _compare_mapping_fields: the title is not compared.
_compare_mapping_fields_no_title(kind, local_mappings, live_mappings) ==
    LET entry(field) ==
            IF Get(local_mappings.d, field, JNull) # Get(live_mappings.d, field, JNull)
               /\ field # "title"
            THEN <<DiffEntry("DIFF", kind, field, Get(live_mappings.d, field, JNull),
                             Get(local_mappings.d, field, JNull))>>
            ELSE <<>>
    IN  entry(MappingFields[1]) \o entry(MappingFields[2]) \o entry(MappingFields[3])

\* _compare_mapping_fields: an entry for each of the three fields whose
\* values differ, in the order of the list.
_compare_mapping_fields(kind, local_mappings, live_mappings) ==
    LET entry(field) ==
            IF Get(local_mappings.d, field, JNull) # Get(live_mappings.d, field, JNull)
            THEN <<DiffEntry("DIFF", kind, field, Get(live_mappings.d, field, JNull),
                             Get(local_mappings.d, field, JNull))>>
            ELSE <<>>
    IN  entry(MappingFields[1]) \o entry(MappingFields[2]) \o entry(MappingFields[3])

\* Faulty variant of compare_section: the keys only live has are left out.
compare_section_no_extra(kind, section, noun, local_mappings, live_mappings) ==
    LET local_props == section_of(local_mappings, section).d
        live_props == section_of(live_mappings, section).d
    IN  { missing \o diff :
            missing \in { [n \in DOMAIN order |->
                              KeyEntry("MISSING " \o noun \o " in live", kind, order[n])] :
                          order \in IterationOrders(DOMAIN local_props \ DOMAIN live_props) },
            diff \in { [n \in DOMAIN order |->
                           DiffEntry("DIFF " \o noun, kind, order[n],
                                     live_props[order[n]], local_props[order[n]])] :
                       order \in IterationOrders(
                           {k \in DOMAIN local_props \cap DOMAIN live_props :
                               local_props[k] # live_props[k]}) } }

\* _compare_properties (section "properties", noun "property") and
\* _compare_relations ("relations", "relation"): the results the three
\* loops over the key sets can give.
compare_section(kind, section, noun, local_mappings, live_mappings) ==
    LET local_props == section_of(local_mappings, section).d
        live_props == section_of(live_mappings, section).d
    IN  { missing \o extra \o diff :
            missing \in { [n \in DOMAIN order |->
                              KeyEntry("MISSING " \o noun \o " in live", kind, order[n])] :
                          order \in IterationOrders(DOMAIN local_props \ DOMAIN live_props) },
            extra \in { [n \in DOMAIN order |->
                            KeyEntry("EXTRA " \o noun \o " in live", kind, order[n])] :
                        order \in IterationOrders(DOMAIN live_props \ DOMAIN local_props) },
            diff \in { [n \in DOMAIN order |->
                           DiffEntry("DIFF " \o noun, kind, order[n],
                                     live_props[order[n]], local_props[order[n]])] :
                       order \in IterationOrders(
                           {k \in DOMAIN local_props \cap DOMAIN live_props :
                               local_props[k] # live_props[k]}) } }

\* The comparison of the mappings of a kind raises: mappings that are no
\* object, or a section that is truthy and no object.
compare_mappings_raises(local_mappings, live_mappings) ==
    \/ local_mappings.t # "dict"
    \/ live_mappings.t # "dict"
    \/ \E section \in {"properties", "relations"} :
          \/ section_of(local_mappings, section).t # "dict"
          \/ section_of(live_mappings, section).t # "dict"

\* Faulty variant of compare_kind: the relations are not compared.
compare_kind_no_relations(kind, local_idx, live_idx) ==
    IF kind \notin DOMAIN live_idx THEN {<<KindEntry("MISSING in live", kind)>>}
    ELSE IF kind \notin DOMAIN local_idx THEN {<<KindEntry("EXTRA in live", kind)>>}
    ELSE LET local_mappings == get_mappings(local_idx[kind])
             live_mappings == get_mappings(live_idx[kind])
         IN  { _compare_mapping_fields(kind, local_mappings, live_mappings) \o props :
               props \in compare_section(kind, "properties", "property",
                                         local_mappings, live_mappings) }

\* The body of the loop of _compare_configs for one kind: the results it
\* can append.
compare_kind(kind, local_idx, live_idx) ==
    IF kind \notin DOMAIN live_idx THEN {<<KindEntry("MISSING in live", kind)>>}
    ELSE IF kind \notin DOMAIN local_idx THEN {<<KindEntry("EXTRA in live", kind)>>}
    ELSE LET local_mappings == get_mappings(local_idx[kind])
             live_mappings == get_mappings(live_idx[kind])
         IN  { _compare_mapping_fields(kind, local_mappings, live_mappings)
                    \o props \o rels :
               props \in compare_section(kind, "properties", "property",
                                         local_mappings, live_mappings),
               rels \in compare_section(kind, "relations", "relation",
                                        local_mappings, live_mappings) }

\* The loop body raises for this kind.
compare_kind_raises(kind, local_idx, live_idx) ==
    /\ kind \in DOMAIN live_idx
    /\ kind \in DOMAIN local_idx
    /\ \/ get_mappings_raises(local_idx[kind])
       \/ get_mappings_raises(live_idx[kind])
       \/ compare_mappings_raises(get_mappings(local_idx[kind]),
                                  get_mappings(live_idx[kind]))

\* The results of the loop over the kinds of `kinds`, in order.
RECURSIVE compare_kinds(_, _, _)
compare_kinds(kinds, local_idx, live_idx) ==
    IF kinds = <<>> THEN {<<>>}
    ELSE { first \o rest :
             first \in compare_kind(Head(kinds), local_idx, live_idx),
             rest \in compare_kinds(Tail(kinds), local_idx, live_idx) }

\* _compare_configs: what a call can return, or that it raises.
_compare_configs(live_cfg, local_cfg) ==
    IF live_cfg.t # "dict" \/ local_cfg.t # "dict" THEN {Raised}
    ELSE IF index_raises(resources_of(live_cfg)) \/ index_raises(resources_of(local_cfg))
    THEN {Raised}
    ELSE LET live_idx == index_by_kind(resources_of(live_cfg))
             local_idx == index_by_kind(resources_of(local_cfg))
             all_kinds == sorted(DOMAIN live_idx \cup DOMAIN local_idx)
         IN  IF \E n \in 1..Len(all_kinds) :
                   compare_kind_raises(all_kinds[n], local_idx, live_idx)
             THEN {Raised}
             ELSE {Returned(diffs) : diffs \in compare_kinds(all_kinds, local_idx, live_idx)}


----------------------------------------------------------------------------
(* The configs the diff is called with *)

\* A one-character name or expression.
Name(ch) == JStr(<<ch>>)

\* A resource of a config.
Resource(kind, selector, mappings) ==
    JDict([kind |-> Name(kind),
           selector |-> JDict([query |-> Name(selector)]),
           port |-> JDict([entity |-> JDict([mappings |-> mappings])])])

\* The resources of kind "a" differ in the selector and in the fields.
ResourcesA ==
    { Resource("a", "1", JDict([identifier |-> Name("x"), title |-> Name("t"),
                                blueprint |-> Name("b")])),
      Resource("a", "2", JDict([identifier |-> Name("x"), title |-> Name("t"),
                                blueprint |-> Name("b")])),
      Resource("a", "1", JDict([identifier |-> Name("y"), title |-> Name("t"),
                                blueprint |-> Name("c")])),
      Resource("a", "1", JDict([identifier |-> Name("x"), title |-> JNull,
                                blueprint |-> Name("b")])),
      Resource("a", "1", JDict([identifier |-> Name("x"), blueprint |-> Name("b")])) }

\* The resources of kind "b" differ in the properties.
ResourcesB ==
    { Resource("b", "1", JDict([identifier |-> Name("x"), properties |-> props])) :
        props \in { JDict(EmptyDoc), JNull,
                    JDict([p |-> Name("1")]), JDict([p |-> Name("2")]),
                    JDict([p |-> Name("1"), q |-> Name("1")]) } }
    \cup { Resource("b", "1", JDict([identifier |-> Name("x")])) }

\* The resources of kind "c" differ in the relations.
ResourcesC ==
    { Resource("c", "1", JDict([relations |-> rels])) :
        rels \in { JDict(EmptyDoc), JDict([r |-> Name("2")]),
                   JDict([r |-> Name("1"), s |-> Name("1")]) } }

\* The well-formed configs: at most one resource of each kind, listed
\* from "c" to "a".
WellFormedConfigs ==
    { JDict([resources |-> JList(c \o b \o a)]) :
        a \in {<<>>} \cup {<<r>> : r \in ResourcesA},
        b \in {<<>>} \cup {<<r>> : r \in ResourcesB},
        c \in {<<>>} \cup {<<r>> : r \in ResourcesC} }

\* A config whose only resource is `resource`.
Single(resource) == JDict([resources |-> JList(<<resource>>)])

\* Configs with a section that is absent, null or of the wrong shape.
MalformedConfigs ==
    { JNull,
      Name("x"),
      JDict(EmptyDoc),
      JDict([resources |-> JNull]),
      JDict([resources |-> Name("x")]),
      JDict([resources |-> JDict(EmptyDoc)]),
      JDict([resources |-> JDict([a |-> JNull])]),
      Single(JNull),
      Single(JDict([selector |-> Name("1")])),
      Single(JDict([kind |-> Name("a")])),
      Single(JDict([kind |-> Name("a"), port |-> JNull])),
      Single(JDict([kind |-> Name("a"), port |-> JDict(EmptyDoc)])),
      Single(JDict([kind |-> Name("a"), port |-> JDict([entity |-> JNull])])),
      Single(JDict([kind |-> Name("a"), port |-> JDict([entity |-> JList(<<>>)])])),
      Single(Resource("a", "1", JNull)),
      Single(Resource("a", "1", Name("x"))),
      Single(Resource("a", "1", JDict([properties |-> Name("x")]))),
      Single(Resource("a", "1", JDict([relations |-> JList(<<Name("r")>>)]))) }

DiffConfigs == WellFormedConfigs \cup MalformedConfigs

DiffInit ==
    /\ pc = "diff"
    /\ diff_live \in DiffConfigs
    /\ diff_local \in DiffConfigs
    /\ diff_out = NoDiff
    /\ force_recreate = FALSE
    /\ wrapped = FALSE
    /\ stored = Absent
    /\ visible = stored
    /\ live_data = EmptyDoc
    /\ calls = <<>>
    /\ logs = <<>>
    /\ exit_code = 0
    /\ WebhookIdle
    /\ BlueprintsIdle
    /\ FirstRun
    /\ MainIdle
    /\ Alone
    /\ AwsIdle

\* A call of _compare_configs.
compare_call ==
    /\ pc = "diff"
    /\ diff_out' \in _compare_configs(diff_live, diff_local)
    /\ pc' = "diffed"
    /\ UNCHANGED <<diff_live, diff_local>>
    /\ UNCHANGED <<force_recreate, wrapped, stored, visible, live_data, calls, logs,
                   exit_code>>
    /\ UNCHANGED <<wh_vars, bp_vars, run_vars, main_vars, procs, aws_vars>>

DiffSpec == DiffInit /\ [][compare_call]_vars


\* The entries of a result.
Entries(out) == {out.diffs[n] : n \in 1..Len(out.diffs)}

\* The call returned.
Diffed == pc = "diffed" /\ ~diff_out.raised

\* The resources of the two configs by kind, and the mappings of a kind.
LiveIdx == index_by_kind(resources_of(diff_live))

LocalIdx == index_by_kind(resources_of(diff_local))

SharedKinds == DOMAIN LiveIdx \cap DOMAIN LocalIdx

\* C22: _compare_configs(X, X) returns the empty sequence for every
\* well-formed config X (and for any X at all the call returns nothing but
\* the empty sequence).
C22_SelfDiffEmpty ==
    (pc = "diffed" /\ diff_live = diff_local) =>
        /\ diff_live \in WellFormedConfigs => diff_out = Returned(<<>>)
        /\ ~diff_out.raised => diff_out.diffs = <<>>

\* A config with resources of three kinds, fields that are null and absent,
\* properties and relations, was compared with itself.
C22_Witness ==
    /\ pc = "diffed"
    /\ diff_live = diff_local
    /\ diff_live \in WellFormedConfigs
    /\ Cardinality(DOMAIN LiveIdx) = 3
    /\ Get(get_mappings(LiveIdx[<<"a">>]).d, "title", JNull) = JNull
    /\ Cardinality(DOMAIN section_of(get_mappings(LiveIdx[<<"b">>]), "properties").d) = 2

\* The dual of an entry: missing and extra change places, the values of a
\* difference too.
DualTag(tag) ==
    CASE tag = "MISSING in live" -> "EXTRA in live"
      [] tag = "EXTRA in live" -> "MISSING in live"
      [] tag = "MISSING property in live" -> "EXTRA property in live"
      [] tag = "EXTRA property in live" -> "MISSING property in live"
      [] tag = "MISSING relation in live" -> "EXTRA relation in live"
      [] tag = "EXTRA relation in live" -> "MISSING relation in live"
      [] OTHER -> tag

Dual(e) ==
    [tag |-> DualTag(e.tag), kind |-> e.kind, key |-> e.key,
     live |-> e.local, local |-> e.live]

\* C23: diff(A, B) and diff(B, A) are dual: the entries of the one are the
\* duals of the entries of the other, same kind and key, missing and extra
\* exchanged, live and local values swapped, and none is without its dual.
C23_Dual ==
    Diffed =>
        \A other \in _compare_configs(diff_local, diff_live) :
            /\ ~other.raised
            /\ Entries(other) = {Dual(e) : e \in Entries(diff_out)}
            /\ Len(other.diffs) = Len(diff_out.diffs)

\* Two configs that differ in a kind, in properties only one has and in a
\* property both have were compared.
C23_Witness ==
    /\ Diffed
    /\ \E e \in Entries(diff_out) : e.tag = "EXTRA in live"
    /\ \E e \in Entries(diff_out) : e.tag = "EXTRA property in live"
    /\ \E e \in Entries(diff_out) : e.tag = "DIFF property"
    /\ \E e \in Entries(diff_out) : e.tag = "MISSING relation in live"

\* The entries the diff algorithm defines for a section of the mappings.
SectionEntries(kind, section, noun) ==
    LET local_keys == section_of(get_mappings(LocalIdx[kind]), section).d
        live_keys == section_of(get_mappings(LiveIdx[kind]), section).d
    IN  {KeyEntry("MISSING " \o noun \o " in live", kind, k) :
            k \in DOMAIN local_keys \ DOMAIN live_keys}
        \cup {KeyEntry("EXTRA " \o noun \o " in live", kind, k) :
            k \in DOMAIN live_keys \ DOMAIN local_keys}
        \cup {DiffEntry("DIFF " \o noun, kind, k, live_keys[k], local_keys[k]) :
            k \in {x \in DOMAIN live_keys \cap DOMAIN local_keys :
                      live_keys[x] # local_keys[x]}}

\* The entries the diff algorithm defines for the two configs.
ExpectedEntries ==
    {KindEntry("MISSING in live", k) : k \in DOMAIN LocalIdx \ DOMAIN LiveIdx}
    \cup {KindEntry("EXTRA in live", k) : k \in DOMAIN LiveIdx \ DOMAIN LocalIdx}
    \cup UNION { {DiffEntry("DIFF", k, f,
                            Get(get_mappings(LiveIdx[k]).d, f, JNull),
                            Get(get_mappings(LocalIdx[k]).d, f, JNull)) :
                    f \in {x \in {"identifier", "title", "blueprint"} :
                              Get(get_mappings(LiveIdx[k]).d, x, JNull)
                                  # Get(get_mappings(LocalIdx[k]).d, x, JNull)}}
                 \cup SectionEntries(k, "properties", "property")
                 \cup SectionEntries(k, "relations", "relation") :
                 k \in SharedKinds }

\* C24: the entries _compare_configs returns are exactly those of the diff
\* algorithm, each once: missing and extra kinds with nothing further for
\* them, and for a kind in both a field entry iff the values of the field
\* differ and, for properties and relations, a missing, extra or difference
\* entry per key.
C24_ExactEntries ==
    Diffed =>
        /\ Entries(diff_out) = ExpectedEntries
        /\ Len(diff_out.diffs) = Cardinality(ExpectedEntries)

\* local has the kinds a and b, live has b and c with the same mappings for
\* b: the result is MISSING a and EXTRA c, nothing for b.
C24_Witness ==
    /\ Diffed
    /\ DOMAIN LocalIdx = {<<"a">>, <<"b">>}
    /\ DOMAIN LiveIdx = {<<"b">>, <<"c">>}
    /\ LocalIdx[<<"b">>] = LiveIdx[<<"b">>]
    /\ Entries(diff_out) = {KindEntry("MISSING in live", <<"a">>),
                            KindEntry("EXTRA in live", <<"c">>)}


\* The field names and keys of the configs in lexicographic order; an
\* entry for a kind as a whole has the empty key.
KeyOrder == <<"", "blueprint", "identifier", "p", "q", "r", "s", "title">>

KeyRank(key) == CHOOSE n \in DOMAIN KeyOrder : KeyOrder[n] = key

\* Entry e may stand before entry f in an order by kind, then by key.
InOrder(e, f) ==
    \/ StrLess(e.kind, f.kind)
    \/ e.kind = f.kind /\ KeyRank(e.key) <= KeyRank(f.key)

\* C25: the sequence _compare_configs returns is ordered by kind and within
\* a kind by field name or key, and it is the only sequence a call on these
\* inputs can return.
C25_DeterministicOrder ==
    Diffed =>
        /\ \A i, j \in 1..Len(diff_out.diffs) :
              i < j => InOrder(diff_out.diffs[i], diff_out.diffs[j])
        /\ Cardinality(_compare_configs(diff_live, diff_local)) = 1

\* What the code keeps of C25: the kinds of the entries are in sorted order.
C25_KindsInOrder ==
    Diffed =>
        \A i, j \in 1..Len(diff_out.diffs) :
            i < j => \/ diff_out.diffs[i].kind = diff_out.diffs[j].kind
                     \/ StrLess(diff_out.diffs[i].kind, diff_out.diffs[j].kind)

\* C26: the diff never fails: whatever section of live or local is absent,
\* null or of the wrong shape, _compare_configs returns a result.
C26_NeverFails ==
    pc = "diffed" => ~diff_out.raised

\* The selector of the resource of a kind.
Selector(resource) == Get(resource.d, "selector", JNull)

\* C27 as stated: an empty diff means the same kinds and, for every kind,
\* equal selector and equal entity mapping (identifier, title, blueprint,
\* properties, relations).
C27_Original ==
    (Diffed /\ diff_out.diffs = <<>>) =>
        /\ DOMAIN LiveIdx = DOMAIN LocalIdx
        /\ \A k \in SharedKinds :
              /\ Selector(LiveIdx[k]) = Selector(LocalIdx[k])
              /\ \A f \in {"identifier", "title", "blueprint"} :
                    Get(get_mappings(LiveIdx[k]).d, f, JNull)
                        = Get(get_mappings(LocalIdx[k]).d, f, JNull)
              /\ \A section \in {"properties", "relations"} :
                    section_of(get_mappings(LiveIdx[k]), section)
                        = section_of(get_mappings(LocalIdx[k]), section)

\* C27: whenever _compare_configs(live, local) is empty, live and local
\* hold the same kinds and, for every kind, equal identifier, title and
\* blueprint (a field that is absent equals one that is null) and equal
\* properties and relations (a section that is absent or null equals an
\* empty one). The selector is not compared.
C27_EmptyMeansEqualMappings ==
    (Diffed /\ diff_out.diffs = <<>>) =>
        /\ DOMAIN LiveIdx = DOMAIN LocalIdx
        /\ \A k \in SharedKinds :
              /\ \A f \in {"identifier", "title", "blueprint"} :
                    Get(get_mappings(LiveIdx[k]).d, f, JNull)
                        = Get(get_mappings(LocalIdx[k]).d, f, JNull)
              /\ \A section \in {"properties", "relations"} :
                    section_of(get_mappings(LiveIdx[k]), section)
                        = section_of(get_mappings(LocalIdx[k]), section)

\* Two configs that differ in a selector only gave the empty diff.
C27_Witness ==
    /\ Diffed
    /\ diff_out.diffs = <<>>
    /\ Cardinality(SharedKinds) = 3
    /\ Selector(LiveIdx[<<"a">>]) # Selector(LocalIdx[<<"a">>])


----------------------------------------------------------------------------
(* The whole run: token, blueprints, webhook, integration, drift check *)

auth_url == "auth/access_token"

\* The answers of POST /v1/auth/access_token.
AuthResponses ==
    { [status |-> 200, body |-> [accessToken |-> "token"]],
      [status |-> 200, body |-> EmptyDoc],
      [status |-> 401, body |-> EmptyDoc],
      [status |-> 500, body |-> EmptyDoc] }

\* response.raise_for_status()
raise_for_status(status) == status >= 400

\* get_port_access_token returns a token: the request did not raise, the
\* status is no error and the body has "accessToken".
token_returned(call) ==
    /\ ~call.raised
    /\ ~raise_for_status(call.status)
    /\ "accessToken" \in DOMAIN call.reply

\* Faulty variant: a failed exchange is swallowed and the run goes on.
setup_after_token_go_on(call) == "blueprints"

\* setup_port_resources after its token exchange: an exception leaves it and
\* reaches main's handler.
setup_after_token(call) == IF token_returned(call) THEN "blueprints" ELSE "exited"

\* get_port_access_token, called by setup_port_resources.
get_port_access_token ==
    /\ pc = "token"
    /\ \E call \in {Call("POST", auth_url, EmptyDoc, r) : r \in AuthResponses}
                   \cup {RaisedCall("POST", auth_url, EmptyDoc)} :
          /\ auth_calls' = Append(auth_calls, call)
          /\ pc' = setup_after_token(call)
          /\ exit_code' = IF setup_after_token(call) = "exited" THEN 1 ELSE exit_code
    /\ UNCHANGED <<args_verify_mappings, vm_calls>>
    /\ UNCHANGED <<force_recreate, wrapped, stored, visible, live_data, calls, logs>>
    /\ UNCHANGED <<wh_vars, bp_vars, run_vars, diff_vars, procs, aws_vars>>

\* setup_port_resources between ensure_blueprints_exist and
\* create_or_resolve_port_webhook.
setup_port_resources ==
    /\ pc = "bp_done"
    /\ pc' = "webhook"
    /\ UNCHANGED <<force_recreate, wrapped, stored, visible, live_data, calls, logs,
                   exit_code>>
    /\ UNCHANGED <<wh_vars, bp_vars, run_vars, main_vars, diff_vars, procs, aws_vars>>

\* The kinds of the local configuration as strings.
KindChars(kind) ==
    CASE kind = "ec2_instance" -> <<"e", "c", "2", "_", "i", "n", "s", "t", "a", "n", "c", "e">>
      [] kind = "s3_bucket" -> <<"s", "3", "_", "b", "u", "c", "k", "e", "t">>
      [] kind = "lambda_function" -> <<"l", "a", "m", "b", "d", "a", "_", "f", "u", "n", "c", "t", "i", "o", "n">>

\* A config value as the JSON the diff reads.
ConfigJson(cfg) ==
    IF ~cfg.isDict THEN JNull
    ELSE JDict([resources |->
             JList([n \in 1..Len(cfg.resources) |->
                        JDict([kind |-> JStr(KindChars(cfg.resources[n]))])])])

\* response.json().get("config", {})
live_cfg_of(body) ==
    IF "config" \in DOMAIN body THEN ConfigJson(body.config) ELSE JDict(EmptyDoc)

\* Faulty variant: the drift check does not wait for the reconciler.
verify_mappings_ready_early(at) == at \in {"fetch", "returned"}

\* main calls verify_mappings after setup_port_resources returned.
verify_mappings_ready(at) == at = "returned"

\* verify_mappings, its own token exchange; a failure is caught and warned
\* about.
verify_mappings_token ==
    /\ verify_mappings_ready(pc)
    /\ args_verify_mappings
    /\ \E call \in {Call("POST", auth_url, EmptyDoc, r) : r \in AuthResponses}
                   \cup {RaisedCall("POST", auth_url, EmptyDoc)} :
          /\ auth_calls' = Append(auth_calls, call)
          /\ pc' = IF token_returned(call) THEN "vm_fetch" ELSE "verified"
    /\ UNCHANGED <<args_verify_mappings, vm_calls>>
    /\ UNCHANGED <<force_recreate, wrapped, stored, visible, live_data, calls, logs,
                   exit_code>>
    /\ UNCHANGED <<wh_vars, bp_vars, run_vars, diff_vars, procs, aws_vars>>

\* verify_mappings, the fetch of the live integration and the diff; every
\* exception is caught and warned about.
verify_mappings_get ==
    /\ pc = "vm_fetch"
    /\ \/ \E response \in GetResponses :
            /\ vm_calls' = Append(vm_calls, Call("GET", integ_url, EmptyDoc, response))
            /\ IF response.status # 200
               THEN UNCHANGED diff_vars
               ELSE /\ diff_live' = live_cfg_of(response.body)
                    /\ diff_local' = ConfigJson(port_app_config)
                    /\ diff_out' \in _compare_configs(live_cfg_of(response.body),
                                                      ConfigJson(port_app_config))
       \/ /\ vm_calls' = Append(vm_calls, RaisedCall("GET", integ_url, EmptyDoc))
          /\ UNCHANGED diff_vars
    /\ pc' = "verified"
    /\ UNCHANGED <<auth_calls, args_verify_mappings>>
    /\ UNCHANGED <<force_recreate, wrapped, stored, visible, live_data, calls, logs,
                   exit_code>>
    /\ UNCHANGED <<wh_vars, bp_vars, run_vars, procs, aws_vars>>

\* An integration the remote holds before the run.
OldIntegration ==
    Present([installationId |-> integration_id, createdAt |-> "t0",
             updatedAt |-> "t0", config |-> Cfg(<<"lambda_function">>)])

\* The remote before the run, the files and the arguments of the run: a
\* first run that has to find or create its webhook, or a run that is given
\* its webhook key, on an account with or without the integration.
PipelineInit ==
    /\ pc = "token"
    /\ auth_calls = <<>>
    /\ vm_calls = <<>>
    /\ blueprints = <<"service">>
    /\ bp_index = 1
    /\ bp_exists \in {{}, {"service"}}
    /\ bp_calls = <<>>
    /\ args_ingest_base_url = BaseUrl
    /\ response_data = JDict(EmptyDoc)
    /\ webhook_url = <<>>
    /\ wh_calls = <<>>
    /\ error = NoError
    /\ \/ /\ args_webhook = <<>>
          /\ stored = Absent
          /\ force_recreate = FALSE
          /\ args_verify_mappings = FALSE
          /\ wrapped = FALSE
       \/ /\ args_webhook = KeyValue(1).s
          /\ stored \in {Absent, OldIntegration}
          /\ force_recreate \in BOOLEAN
          /\ args_verify_mappings \in BOOLEAN
          /\ wrapped \in BOOLEAN
    /\ visible = stored
    /\ live_data = EmptyDoc
    /\ calls = <<>>
    /\ logs = <<>>
    /\ exit_code = 0
    /\ FirstRun
    /\ DiffIdle
    /\ Alone
    /\ AwsIdle

PipelineNext ==
    \/ get_port_access_token
    \/ ensure_blueprints_exist_get
    \/ ensure_blueprints_exist_post
    \/ ensure_blueprints_exist_return
    \/ setup_port_resources
    \/ create_or_resolve_port_webhook
    \/ resolve_existing_webhook
    \/ create_webhook
    \/ _apply_webhook_mappings
    \/ Step
    \/ Propagate
    \/ verify_mappings_token
    \/ verify_mappings_get

PipelineSpec == PipelineInit /\ [][PipelineNext]_vars


\* The first token exchange of the run, the one of setup_port_resources,
\* failed.
TokenExchangeFailed == auth_calls # <<>> /\ ~token_returned(auth_calls[1])

\* No blueprint, webhook or integration request was issued.
NoReconciliation == bp_calls = <<>> /\ wh_calls = <<>> /\ calls = <<>>

\* C28: if the token exchange fails, the run has ended with a non-zero exit
\* code and no blueprint, webhook or integration request is ever issued.
C28_TokenFailureAborts ==
    TokenExchangeFailed =>
        /\ pc = "exited"
        /\ exit_code # 0
        /\ NoReconciliation
        /\ vm_calls = <<>>
        /\ Len(auth_calls) = 1

\* The token endpoint answered 200 without an accessToken and the run ended.
C28_Witness ==
    /\ TokenExchangeFailed
    /\ ~auth_calls[1].raised
    /\ auth_calls[1].status = 200
    /\ pc = "exited"
    /\ NoReconciliation

\* A request of one of the three reconciliation stages, or of the drift
\* check, is issued in this step.
BlueprintRequest == bp_calls' # bp_calls

WebhookRequest == wh_calls' # wh_calls

IntegrationRequest == calls' # calls

DriftRequest == vm_calls' # vm_calls \/ Len(auth_calls') > 1

\* The number of requests issued so far.
NRequests == Len(auth_calls) + Len(bp_calls) + Len(wh_calls) + Len(calls) + Len(vm_calls)

\* C29: the stages run one after the other. A blueprint request is issued
\* after the token was obtained and before every webhook request, a webhook
\* request before every integration request, a request of the drift check
\* after the last integration request; a step issues at most one request,
\* and each request is answered in the step that issues it.
C29_StagesInOrder ==
    [][ /\ BlueprintRequest =>
              /\ Len(auth_calls) = 1 /\ token_returned(auth_calls[1])
              /\ wh_calls = <<>> /\ calls = <<>> /\ vm_calls = <<>>
        /\ WebhookRequest =>
              /\ Len(auth_calls) = 1 /\ token_returned(auth_calls[1])
              /\ bp_index > Len(blueprints)
              /\ calls = <<>> /\ vm_calls = <<>>
        /\ IntegrationRequest =>
              /\ Len(auth_calls) = 1 /\ token_returned(auth_calls[1])
              /\ bp_index > Len(blueprints)
              /\ webhook_url # <<>>
              /\ vm_calls = <<>>
        /\ DriftRequest =>
              /\ args_verify_mappings
              /\ calls # <<>>
              /\ calls' = calls
        /\ NRequests' \in {NRequests, NRequests + 1} ]_vars

\* Every stage issued a request and the drift check fetched the integration.
C29_Witness ==
    /\ pc = "exited"
    /\ exit_code = 0
    /\ bp_calls # <<>>
    /\ wh_calls # <<>>
    /\ Len(calls) > 1
    /\ vm_calls # <<>>
    /\ Len(auth_calls) = 2


----------------------------------------------------------------------------
(* Two runs of the reconciler at the same time on one integration id *)

Runs == {1, 2}

\* A run of update_integration_config that has not started.
FreshRun == [pc |-> "fetch", live_data |-> EmptyDoc, calls |-> <<>>, logs |-> <<>>]

RaceInit ==
    /\ pc = "race"
    /\ procs = [p \in Runs |-> FreshRun]
    /\ stored \in {Absent, OldIntegration}
    /\ visible = stored
    /\ wrapped \in BOOLEAN
    /\ force_recreate = FALSE
    /\ live_data = EmptyDoc
    /\ calls = <<>>
    /\ logs = <<>>
    /\ exit_code = 0
    /\ WebhookIdle
    /\ BlueprintsIdle
    /\ FirstRun
    /\ MainIdle
    /\ DiffIdle
    /\ AwsIdle

\* The run after a request that raised.
RunRaised(p, op, url, body) ==
    [procs EXCEPT ![p].pc = "exited",
                  ![p].calls = Append(@, RaisedCall(op, url, body))]

\* update_integration_config of run p, the initial fetch.
update_integration_config_get_of(p) ==
    /\ procs[p].pc = "fetch"
    /\ \/ \E response \in GetResponses :
            procs' = [procs EXCEPT
                ![p].pc = fetch_next(response.status),
                ![p].live_data = IF fetch_next(response.status) = "patch"
                                 THEN response.body ELSE @,
                ![p].calls = Append(@, Call("GET", integ_url, EmptyDoc, response)),
                ![p].logs = IF fetch_next(response.status) = "patch"
                            THEN Append(@, "Integration exists, updating config...")
                            ELSE IF fetch_next(response.status) = "returned"
                            THEN Append(@, "Unexpected response")
                            ELSE @]
       \/ procs' = RunRaised(p, "GET", integ_url, EmptyDoc)
    /\ UNCHANGED <<pc, force_recreate, wrapped, stored, visible, live_data, calls, logs,
                   exit_code>>
    /\ UNCHANGED <<wh_vars, bp_vars, run_vars, main_vars, diff_vars, aws_vars>>

\* update_integration_config of run p, the update of an existing
\* integration.
update_integration_config_patch_of(p) ==
    /\ procs[p].pc = "patch"
    /\ LET body == patch_body(procs[p].live_data, port_app_config)
       IN  \/ \E status \in WriteStatuses :
                /\ procs' = [procs EXCEPT
                       ![p].pc = patch_next(status, force_recreate),
                       ![p].calls = Append(@, Call("PATCH", integ_url, body,
                                                   WriteResponse(status))),
                       ![p].logs = Append(@, patch_log(status))]
                /\ stored' = IF Accepted(status) /\ stored.present
                             THEN Present(RemotePatch(stored.doc, body))
                             ELSE stored
           \/ /\ procs' = RunRaised(p, "PATCH", integ_url, body)
              /\ UNCHANGED stored
    /\ UNCHANGED <<pc, force_recreate, wrapped, visible, live_data, calls, logs,
                   exit_code>>
    /\ UNCHANGED <<wh_vars, bp_vars, run_vars, main_vars, diff_vars, aws_vars>>

\* _create_integration of run p: nothing is fetched again before the POST.
_create_integration_of(p) ==
    /\ procs[p].pc = "create"
    /\ LET body == create_body(port_app_config)
       IN  \/ \E status \in WriteStatuses :
                /\ procs' = [procs EXCEPT
                       ![p].pc = "returned",
                       ![p].calls = Append(@, Call("POST", create_url, body,
                                                   WriteResponse(status))),
                       ![p].logs = Append(@, create_log(status))]
                /\ stored' = IF Accepted(status)
                             THEN Present(RemoteCreate(body))
                             ELSE stored
           \/ /\ procs' = RunRaised(p, "POST", create_url, body)
              /\ UNCHANGED stored
    /\ UNCHANGED <<pc, force_recreate, wrapped, visible, live_data, calls, logs,
                   exit_code>>
    /\ UNCHANGED <<wh_vars, bp_vars, run_vars, main_vars, diff_vars, aws_vars>>

RaceNext ==
    \/ \E p \in Runs : update_integration_config_get_of(p)
    \/ \E p \in Runs : update_integration_config_patch_of(p)
    \/ \E p \in Runs : _create_integration_of(p)
    \/ Propagate

RaceSpec == RaceInit /\ [][RaceNext]_vars


\* Run p observed the integration absent: its fetch was answered 404.
ObservedAbsent(p) ==
    /\ procs[p].calls # <<>>
    /\ procs[p].calls[1].op = "GET"
    /\ ~procs[p].calls[1].raised
    /\ procs[p].calls[1].status = 404

\* Run p issued a create.
IssuedCreate(p) ==
    \E n \in 1..Len(procs[p].calls) :
        procs[p].calls[n].op = "POST" /\ procs[p].calls[n].url = create_url

\* C30: nothing serialises two concurrent runs. A run that observed the
\* integration absent has issued its create by the time it is over, whatever
\* the other run did in between, so the interleaving in which both runs
\* observe it absent and both issue a create is reachable.
C30_BothMayCreate ==
    \A p \in Runs :
        /\ procs[p].pc = "create" => ObservedAbsent(p)
        /\ ObservedAbsent(p) /\ procs[p].pc \in {"returned", "exited"} => IssuedCreate(p)

\* Both runs observed the integration absent and both creates were accepted.
C30_Witness ==
    \A p \in Runs :
        /\ ObservedAbsent(p)
        /\ IssuedCreate(p)
        /\ procs[p].pc = "returned"
        /\ Accepted(procs[p].calls[2].status)

----------------------------------------------------------------------------
(* The body of the update *)

\* The live resource a 200 answer of the fetch carries: the payload itself,
\* or what is wrapped under "integration"; "ok" belongs to the answer.
LiveResource(reply) ==
    IF "integration" \in DOMAIN reply THEN reply["integration"] ELSE Pop(reply, {"ok"})

\* The live resource with the config replaced and the timestamps removed.
MergedBody(reply) ==
    Pop(Put(LiveResource(reply), "config", port_app_config), {"createdAt", "updatedAt"})

\* The i-th request is the update that follows the initial fetch.
IsUpdate(i) == i = 2 /\ IsCall(i, "PATCH", integ_url) /\ FirstFetch(200)

\* C31: the body of the update of an existing integration is the fetched
\* live resource with only its config replaced by the desired one and the
\* creation and update timestamps removed; the fetched document is left as
\* it was fetched.
C31_UpdateBody ==
    \A i \in 1..NCalls :
        IsUpdate(i) =>
            /\ calls[i].body = MergedBody(calls[1].reply)
            /\ live_data = calls[1].reply

\* The same, for a fetch answered in the flat shape only.
C31_FlatUpdateBody ==
    \A i \in 1..NCalls :
        IsUpdate(i) /\ "integration" \notin DOMAIN calls[1].reply =>
            /\ calls[i].body = MergedBody(calls[1].reply)
            /\ live_data = calls[1].reply

----------------------------------------------------------------------------
(* What the run leaves behind and what it reports *)

\* The i-th request is a delete the remote accepted.
AcceptedDelete(i) == IsCall(i, "DELETE", integ_url) /\ Succeeded(i)

\* The i-th request is a create that failed or raised.
FailedCreate(i) == IsCall(i, "POST", create_url) /\ FailedCall(i)

\* C33 as stated: a run that found the integration at its initial fetch
\* never stops with the integration absent from the remote.
C33_Original ==
    FirstFetch(200) /\ ReconcilerDone => stored.present

\* C33: a run that found the integration at its initial fetch stops with
\* the integration absent from the remote only if its delete was accepted
\* and the create that followed it failed or raised; in every other run the
\* integration exists when the run stops.
C33_AbsentOnlyAfterFailedRecreate ==
    FirstFetch(200) /\ ReconcilerDone =>
        (~stored.present <=>
            \E i \in 1..NCalls : AcceptedDelete(i) /\ FailedCreate(i + 1))

\* The delete was accepted, the create after it was answered with an error
\* status, and the run is over with nothing on the remote.
C33_Witness ==
    /\ FirstFetch(200)
    /\ pc = "returned"
    /\ ~stored.present
    /\ \E i \in 1..NCalls :
          AcceptedDelete(i) /\ FailedCreate(i + 1) /\ ~calls[i + 1].raised

\* C34: "Integration recreated with config" is logged only in runs whose
\* create after the delete succeeded, and no other success line is logged
\* for a write that failed.
C34_RecreatedOnlyOnSuccess ==
    /\ (\E n \in 1..Len(logs) : logs[n] = "Integration recreated with config")
           => \E i \in 1..NCalls :
                  AcceptedDelete(i) /\ IsCall(i + 1, "POST", create_url) /\ Succeeded(i + 1)
    /\ (\E n \in 1..Len(logs) : logs[n] = "Created integration")
           => \E i \in 1..NCalls : IsCall(i, "POST", create_url) /\ Succeeded(i)
    /\ (\E n \in 1..Len(logs) : logs[n] = "Updated integration config")
           => \E i \in 1..NCalls : IsCall(i, "PATCH", integ_url) /\ Succeeded(i)

\* The success lines of the create and of the update alone.
C34_OtherSuccessLines ==
    /\ (\E n \in 1..Len(logs) : logs[n] = "Created integration")
           => \E i \in 1..NCalls : IsCall(i, "POST", create_url) /\ Succeeded(i)
    /\ (\E n \in 1..Len(logs) : logs[n] = "Updated integration config")
           => \E i \in 1..NCalls : IsCall(i, "PATCH", integ_url) /\ Succeeded(i)

----------------------------------------------------------------------------
(* The webhook the mappings are applied to *)

\* The i-th request of the webhook stage applies the mappings.
IsMappingsCall(i) == IsWhCall(i, "POST", mappings_url)

\* C37: the identifier of the mappings request is the identifier that ends
\* the webhook URL create_or_resolve_port_webhook returned.
C37_MappingsOnResolvedWebhook ==
    \A i \in 1..NWhCalls :
        IsMappingsCall(i) => wh_calls[i].id = AfterLastSlash(webhook_url)

\* The same for a bare token only, which is both the end of the URL and the
\* identifier.
C37_BareToken ==
    \A i \in 1..NWhCalls :
        IsMappingsCall(i) /\ is_bare_token(args_webhook) =>
            wh_calls[i].id = AfterLastSlash(webhook_url)

----------------------------------------------------------------------------
(* The two shapes of a fetched integration *)

\* The answer that carries the same live resource in the flat shape.
Flat(response) ==
    [status |-> response.status, body |-> Put(LiveResource(response.body), "ok", TRUE)]

\* The i-th request of the reconciler is a fetch answered 200.
IsAnsweredFetch(i) ==
    IsCall(i, "GET", integ_url) /\ ~calls[i].raised /\ calls[i].status = 200

\* The answer of the i-th request.
ResponseOf(call) == [status |-> call.status, body |-> call.reply]

\* The drift check fetched the integration and computed the diff.
DriftChecked ==
    /\ pc \in {"verified", "exited"}
    /\ vm_calls # <<>>
    /\ ~vm_calls[1].raised
    /\ vm_calls[1].status = 200

\* _verify_config_present reads a wrapped answer as it reads the flat one.
C35_VerificationSame ==
    \A i \in 1..NCalls :
        IsAnsweredFetch(i) =>
            config_present(ResponseOf(calls[i])) = config_present(Flat(ResponseOf(calls[i])))

\* C35: a fetched integration reads the same in the flat and in the wrapped
\* shape, in _verify_config_present and in verify_mappings: the result for
\* an answer is the result for the flat answer with the same live resource.
C35_SameUnderBothShapes ==
    /\ C35_VerificationSame
    /\ DriftChecked =>
          /\ diff_live = live_cfg_of(Flat(ResponseOf(vm_calls[1])).body)
          /\ diff_out \in _compare_configs(live_cfg_of(Flat(ResponseOf(vm_calls[1])).body),
                                           ConfigJson(port_app_config))

----------------------------------------------------------------------------
(* setup.py: the blueprint loop, then the integration *)

integration_version == "1.0.0"

\* Faulty variant of setup_fetch_next: only a 200 is told from the rest.
setup_fetch_next_create_unless_found(status) ==
    IF status = 200 THEN "setup_patch" ELSE "setup_create"

\* main of setup.py after its fetch of the integration: patch on 200, create
\* on 404, else report the status and end.
setup_fetch_next(status) ==
    IF status = 200 THEN "setup_patch"
    ELSE IF status = 404 THEN "setup_create"
    ELSE "exited"

\* The body of setup.py's PATCH.
setup_patch_body(config) == [config |-> config, version |-> integration_version]

\* The loop over the blueprints is the one of ensure_blueprints_exist: no
\* request without identifier, nothing on 200, else a creation whose status
\* is only printed; no exception is caught.
SetupInit ==
    /\ pc = "blueprints"
    /\ blueprints \in {<<"service">>, <<NoIdentifier, "service">>}
    /\ bp_index = 1
    /\ bp_exists \in SUBSET {"service"}
    /\ bp_calls = <<>>
    /\ force_recreate = FALSE
    /\ wrapped \in BOOLEAN
    /\ stored \in {Absent} \cup {Present(d) : d \in InitialDocs}
    /\ visible = stored
    /\ live_data = EmptyDoc
    /\ calls = <<>>
    /\ logs = <<>>
    /\ exit_code = 0
    /\ WebhookIdle
    /\ FirstRun
    /\ MainIdle
    /\ DiffIdle
    /\ Alone
    /\ AwsIdle

\* main of setup.py, the fetch of the integration.
setup_main_get ==
    /\ pc = "bp_done"
    /\ \/ \E response \in GetResponses :
            /\ calls' = Append(calls, Call("GET", integ_url, EmptyDoc, response))
            /\ pc' = setup_fetch_next(response.status)
            /\ logs' = IF setup_fetch_next(response.status) = "exited"
                       THEN Append(logs, "Unexpected response checking integration")
                       ELSE logs
            /\ UNCHANGED <<force_recreate, wrapped, stored, visible, live_data, exit_code>>
       \/ Raises("GET", integ_url, EmptyDoc)
    /\ UNCHANGED <<wh_vars, bp_vars, run_vars, main_vars, diff_vars, procs, aws_vars>>

\* main of setup.py, the patch of an integration that exists.
setup_main_patch ==
    /\ pc = "setup_patch"
    /\ LET body == setup_patch_body(port_app_config)
       IN  \/ \E status \in WriteStatuses :
                /\ calls' = Append(calls,
                                Call("PATCH", integ_url, body, WriteResponse(status)))
                /\ stored' = IF Accepted(status) /\ stored.present
                             THEN Present(RemotePatch(stored.doc, body))
                             ELSE stored
                /\ logs' = Append(logs, IF IsError(status)
                                        THEN "Failed to patch integration"
                                        ELSE "Patched integration config successfully")
                /\ pc' = "exited"
                /\ UNCHANGED <<force_recreate, wrapped, visible, live_data, exit_code>>
           \/ Raises("PATCH", integ_url, body)
    /\ UNCHANGED <<wh_vars, bp_vars, run_vars, main_vars, diff_vars, procs, aws_vars>>

\* main of setup.py, the creation of an integration that was not found.
setup_main_post ==
    /\ pc = "setup_create"
    /\ LET body == create_body(port_app_config)
       IN  \/ \E status \in WriteStatuses :
                /\ calls' = Append(calls,
                                Call("POST", create_url, body, WriteResponse(status)))
                /\ stored' = IF Accepted(status)
                             THEN Present(RemoteCreate(body))
                             ELSE stored
                /\ logs' = Append(logs, IF IsError(status)
                                        THEN "Failed to create integration"
                                        ELSE "Created integration successfully")
                /\ pc' = "exited"
                /\ UNCHANGED <<force_recreate, wrapped, visible, live_data, exit_code>>
           \/ Raises("POST", create_url, body)
    /\ UNCHANGED <<wh_vars, bp_vars, run_vars, main_vars, diff_vars, procs, aws_vars>>

SetupNext ==
    \/ ensure_blueprints_exist_get
    \/ ensure_blueprints_exist_post
    \/ ensure_blueprints_exist_return
    \/ setup_main_get
    \/ setup_main_patch
    \/ setup_main_post

\* A run of either script: install_standalone.py's reconciler, or setup.py.
ScriptsInit == Init \/ SetupInit

ScriptsNext == Next \/ SetupNext

ScriptsSpec == ScriptsInit /\ [][ScriptsNext]_vars


\* The run is one of setup.py.
IsSetupRun == bp_calls # <<>> /\ calls # <<>>

\* The initial fetch was answered with a status that is neither 200 nor 404.
UnexpectedFirstFetch ==
    /\ IsCall(1, "GET", integ_url)
    /\ ~calls[1].raised
    /\ calls[1].status \notin {200, 404}

\* C36: when the initial fetch of the integration is answered with a status
\* that is neither 200 nor 404, the fetch is the only request on the
\* integration in that run and the remote is left as it was, in
\* install_standalone.py and in setup.py.
C36_NoWriteOnUnexpectedStatus ==
    UnexpectedFirstFetch => NCalls = 1 /\ stored = visible

\* A run of setup.py whose fetch was answered 500 is over.
C36_Witness ==
    /\ IsSetupRun
    /\ UnexpectedFirstFetch
    /\ pc = "exited"
    /\ exit_code = 0

\* The same for install_standalone.py.
C36_StandaloneCase ==
    /\ ~IsSetupRun
    /\ UnexpectedFirstFetch
    /\ pc = "exited"

----------------------------------------------------------------------------
(* install_stackset.py: preflight, then the StackSet and its instances *)

\* What the AWS APIs answer to preflight; "error" is a ClientError.
Environments ==
    [sts : {"ok", "error"},
     org : {"management", "delegated", "other", "error"},
     access : {"enabled", "disabled", "error"},
     role : {"ok", "error"},
     stack_sets : {"ok", "error"}]

\* The arguments: whether --webhook-url starts with "http", the permission
\* model, whether --admin-role-arn is given, --target-accounts (not given,
\* given but naming no account such as ",", or naming accounts), whether
\* --target-ous and --regions name anything, and --apply.
StacksetArgs ==
    [webhook_http : BOOLEAN,
     permission_model : {"service-managed", "self-managed"},
     admin_role_arn : BOOLEAN,
     target_accounts : {"none", "blank", "given"},
     target_ous : BOOLEAN,
     regions : BOOLEAN,
     apply : BOOLEAN]

\* PreflightResult.add
Issue(level, message) == <<[level |-> level, message |-> message]>>

\* The issue, if the condition holds.
IssueIf(cond, level, message) == IF cond THEN Issue(level, message) ELSE <<>>

\* preflight, the checks of the permission model.
preflight_permission_model(args, env) ==
    IF args.permission_model = "service-managed"
    THEN IF env.org = "error"
         THEN Issue("error", "Failed to describe organization")
         ELSE IssueIf(env.org = "other", "error",
                      "Caller is not the management account or a delegated admin")
              \o IssueIf(env.access = "disabled", "error",
                         "StackSets trusted access is not enabled")
              \o IssueIf(env.access = "error", "error", "Failed to check trusted access")
    ELSE (IF ~args.admin_role_arn
          THEN Issue("error", "Admin role ARN is required")
          ELSE IssueIf(env.role = "error", "warning", "Unable to verify admin role ARN"))
         \o IssueIf(args.target_accounts = "none", "error", "Target accounts are required")

\* preflight: the issues it records, in order.
preflight(args, env) ==
    IssueIf(~args.webhook_http, "error", "Webhook URL must start with http/https")
    \o (IF env.sts = "error"
        THEN Issue("error", "STS get_caller_identity failed")
        ELSE preflight_permission_model(args, env)
             \o IssueIf(env.stack_sets = "error", "warning",
                        "CloudFormation StackSets visibility check failed")
             \o IssueIf(~args.regions, "error", "At least one region is required")
             \o IssueIf(args.permission_model = "service-managed" /\ ~args.target_ous,
                        "warning", "No target OUs provided"))

\* PreflightResult.has_errors
has_errors(result) == \E n \in 1..Len(result) : result[n].level = "error"

\* PreflightResult.render: for each issue its line and the line of its action.
RECURSIVE render(_)
render(result) ==
    IF result = <<>> THEN <<>>
    ELSE <<[line |-> "issue", of |-> Head(result).message],
           [line |-> "action", of |-> Head(result).message]>> \o render(Tail(result))

\* main after preflight: stop on an error, stop without --apply, else deploy.
stackset_main_next(result, apply) ==
    IF has_errors(result) THEN "exited"
    ELSE IF ~apply THEN "exited"
    ELSE "create_stack_set"

stackset_main_exit_code(result) == IF has_errors(result) THEN 1 ELSE 0

\* create_stackset_and_instances after its StackSet: no instances without
\* targets.
instances_next(args) ==
    IF args.permission_model = "service-managed" /\ ~args.target_ous THEN "exited"
    ELSE IF args.permission_model = "self-managed" /\ args.target_accounts # "given"
    THEN "exited"
    ELSE "create_stack_instances"

StacksetInit ==
    /\ pc = "stackset"
    /\ ss_args \in StacksetArgs
    /\ issues = <<>>
    /\ cfn_calls = <<>>
    /\ printed = <<>>
    /\ records = <<>>
    /\ rec_index = 1
    /\ forwards = <<>>
    /\ force_recreate = FALSE
    /\ wrapped = FALSE
    /\ stored = Absent
    /\ visible = stored
    /\ live_data = EmptyDoc
    /\ calls = <<>>
    /\ logs = <<>>
    /\ exit_code = 0
    /\ WebhookIdle
    /\ BlueprintsIdle
    /\ FirstRun
    /\ MainIdle
    /\ DiffIdle
    /\ Alone

\* preflight, called by main.
stackset_preflight ==
    /\ pc = "stackset"
    /\ \E env \in Environments : issues' = preflight(ss_args, env)
    /\ pc' = "preflighted"
    /\ UNCHANGED <<ss_args, cfn_calls, printed, lambda_vars, exit_code>>
    /\ UNCHANGED <<force_recreate, wrapped, stored, visible, live_data, calls, logs>>
    /\ UNCHANGED <<wh_vars, bp_vars, run_vars, main_vars, diff_vars, procs>>

\* main of install_stackset.py after preflight.
stackset_main ==
    /\ pc = "preflighted"
    /\ printed' = render(issues)
                  \o (IF has_errors(issues)
                      THEN <<[line |-> "Preflight failed; no actions were taken.", of |-> ""]>>
                      ELSE IF ~ss_args.apply
                      THEN <<[line |-> "Preflight passed.", of |-> ""]>>
                      ELSE <<>>)
    /\ pc' = stackset_main_next(issues, ss_args.apply)
    /\ exit_code' = stackset_main_exit_code(issues)
    /\ UNCHANGED <<ss_args, issues, cfn_calls, lambda_vars>>
    /\ UNCHANGED <<force_recreate, wrapped, stored, visible, live_data, calls, logs>>
    /\ UNCHANGED <<wh_vars, bp_vars, run_vars, main_vars, diff_vars, procs>>

\* create_stackset_and_instances, the StackSet: created, or reused when the
\* name exists; any other ClientError leaves main.
create_stack_set ==
    /\ pc = "create_stack_set"
    /\ \E answer \in {"created", "NameAlreadyExistsException", "error"} :
          /\ cfn_calls' = Append(cfn_calls, [op |-> "create_stack_set", answer |-> answer])
          /\ pc' = IF answer = "error" THEN "exited" ELSE instances_next(ss_args)
          /\ exit_code' = IF answer = "error" THEN 1 ELSE 0
    /\ UNCHANGED <<ss_args, issues, printed, lambda_vars>>
    /\ UNCHANGED <<force_recreate, wrapped, stored, visible, live_data, calls, logs>>
    /\ UNCHANGED <<wh_vars, bp_vars, run_vars, main_vars, diff_vars, procs>>

\* create_stackset_and_instances, the stack instances.
create_stack_instances ==
    /\ pc = "create_stack_instances"
    /\ \E answer \in {"started", "error"} :
          /\ cfn_calls' = Append(cfn_calls,
                                 [op |-> "create_stack_instances", answer |-> answer])
          /\ exit_code' = IF answer = "error" THEN 1 ELSE 0
    /\ pc' = "exited"
    /\ UNCHANGED <<ss_args, issues, printed, lambda_vars>>
    /\ UNCHANGED <<force_recreate, wrapped, stored, visible, live_data, calls, logs>>
    /\ UNCHANGED <<wh_vars, bp_vars, run_vars, main_vars, diff_vars, procs>>

StacksetNext ==
    \/ stackset_preflight
    \/ stackset_main
    \/ create_stack_set
    \/ create_stack_instances

StacksetSpec == StacksetInit /\ [][StacksetNext]_vars


\* main has looked at the result of preflight.
PreflightJudged == pc \in {"create_stack_set", "create_stack_instances", "exited"}

\* Every issue was printed with its action.
Reported ==
    \A n \in 1..Len(issues) :
        /\ \E m \in 1..Len(printed) :
              printed[m].line = "issue" /\ printed[m].of = issues[n].message
        /\ \E m \in 1..Len(printed) :
              printed[m].line = "action" /\ printed[m].of = issues[n].message

\* C32: whenever preflight records an issue, main reports it with its
\* remediation, exits non-zero and issues no create_stack_set and no
\* create_stack_instances, with or without --apply.
C32_AnyIssueBlocks ==
    issues # <<>> /\ PreflightJudged =>
        /\ Reported
        /\ pc = "exited"
        /\ exit_code # 0
        /\ cfn_calls = <<>>

\* The same for an issue of level "error" only.
C32_ErrorsBlock ==
    has_errors(issues) /\ PreflightJudged =>
        /\ Reported
        /\ pc = "exited"
        /\ exit_code # 0
        /\ cfn_calls = <<>>

----------------------------------------------------------------------------
(* lambda/handler.py: the records of an SQS event forwarded to the webhook *)

MaxRecords == 3

\* a or b
Or(a, b) == IF Truthy(a) THEN a ELSE b

\* value.get(key) of an object
Field(value, key) == Get(value.d, key, JNull)

Chars(ch) == JStr(<<ch>>)

\* f"aws-event-{int(time.time()*1000)}"
TimeIdentifier == JStr(<<"a", "w", "s", "-", "e", "v", "e", "n", "t", "-", "0">>)

awsEvent == JStr(<<"a", "w", "s", "E", "v", "e", "n", "t">>)

\* The body of a record: None or "", a text that is no JSON, or a JSON text
\* with the value it parses to.
EmptyBody == [kind |-> "empty"]

TextBody == [kind |-> "text"]

JsonBody(value) == [kind |-> "json", value |-> value]

\* The JSON values of the bodies: an entity, events with and without a
\* detail, a detail whose requestParameters is null, and values that are
\* no object.
Payloads ==
    { JDict([blueprint |-> Chars("b"), identifier |-> Chars("i")]),
      JDict([detail |-> JDict([resource |-> Chars("r")]), source |-> Chars("s")]),
      JDict([detail |-> JDict([requestParameters |-> JDict([bucketName |-> Chars("k")])])]),
      JDict([detail |-> JDict([requestParameters |-> JNull, arn |-> Chars("a")])]),
      JDict([id |-> Chars("x"), detail |-> Chars("d")]),
      JDict(EmptyDoc),
      JList(<<>>),
      JNull }

Bodies == {EmptyBody, TextBody} \cup {JsonBody(v) : v \in Payloads}

\* Every event of at most MaxRecords records.
Events == UNION {[1..n -> Bodies] : n \in 0..MaxRecords}

\* json.loads(body), and the fallback for a body that does not parse.
loads(body) ==
    IF body.kind = "json" THEN body.value ELSE JDict([raw |-> JStr(<<"t">>)])

\* The payload is forwarded as it is.
is_entity(payload) ==
    /\ payload.t = "dict"
    /\ "blueprint" \in DOMAIN payload.d
    /\ "identifier" \in DOMAIN payload.d

\* _build_minimal_entity_from_event raises AttributeError: the payload has no
\* .get, or requestParameters is read and is no object.
build_raises(payload) ==
    \/ payload.t # "dict"
    \/ /\ Field(payload, "detail").t = "dict"
       /\ ~Truthy(Field(Field(payload, "detail"), "resource"))
       /\ "requestParameters" \in DOMAIN Field(payload, "detail").d
       /\ Field(Field(payload, "detail"), "requestParameters").t # "dict"

\* The identifier _build_minimal_entity_from_event picks.
event_identifier(payload) ==
    LET detail == Field(payload, "detail")
        first == IF detail.t # "dict" THEN JNull
                 ELSE LET candidate ==
                            Or(Field(detail, "resource"),
                               IF "requestParameters" \in DOMAIN detail.d
                               THEN Field(Field(detail, "requestParameters"), "bucketName")
                               ELSE JNull)
                      IN  IF Truthy(candidate) THEN candidate
                          ELSE Or(Field(payload, "id"), Field(detail, "arn"))
    IN  Or(Or(first, Field(payload, "id")), TimeIdentifier)

\* _build_minimal_entity_from_event
_build_minimal_entity_from_event(payload) ==
    JDict([identifier |-> event_identifier(payload),
           title |-> Or(Or(Field(payload, "detail-type"), Field(payload, "source")),
                        event_identifier(payload)),
           blueprint |-> awsEvent,
           properties |-> JDict([event |-> payload])])

\* The entity lambda_handler forwards for a payload.
entity_of(payload) ==
    IF is_entity(payload) THEN payload ELSE _build_minimal_entity_from_event(payload)

LambdaInit ==
    /\ pc = "lambda"
    /\ records \in Events
    /\ rec_index = 1
    /\ forwards = <<>>
    /\ ss_args = NoArgs
    /\ issues = <<>>
    /\ cfn_calls = <<>>
    /\ printed = <<>>
    /\ force_recreate = FALSE
    /\ wrapped = FALSE
    /\ stored = Absent
    /\ visible = stored
    /\ live_data = EmptyDoc
    /\ calls = <<>>
    /\ logs = <<>>
    /\ exit_code = 0
    /\ WebhookIdle
    /\ BlueprintsIdle
    /\ FirstRun
    /\ MainIdle
    /\ DiffIdle
    /\ Alone

\* lambda_handler, one turn of its loop: a record without body is skipped;
\* an exception of the POST is caught and logged, one of
\* _build_minimal_entity_from_event is not.
lambda_handler_record ==
    /\ pc = "lambda"
    /\ rec_index <= Len(records)
    /\ LET body == records[rec_index]
           payload == loads(body)
       IN  IF body.kind = "empty"
           THEN /\ rec_index' = rec_index + 1
                /\ UNCHANGED <<pc, forwards>>
           ELSE IF ~is_entity(payload) /\ build_raises(payload)
           THEN /\ pc' = "lambda_raised"
                /\ UNCHANGED <<rec_index, forwards>>
           ELSE /\ \E posted \in BOOLEAN :
                      forwards' = Append(forwards,
                          [record |-> rec_index, entity |-> entity_of(payload),
                           raised |-> ~posted])
                /\ rec_index' = rec_index + 1
                /\ UNCHANGED pc
    /\ UNCHANGED <<records, stackset_vars, exit_code>>
    /\ UNCHANGED <<force_recreate, wrapped, stored, visible, live_data, calls, logs>>
    /\ UNCHANGED <<wh_vars, bp_vars, run_vars, main_vars, diff_vars, procs>>

\* lambda_handler returns after the last record.
lambda_handler_return ==
    /\ pc = "lambda"
    /\ rec_index > Len(records)
    /\ pc' = "lambda_done"
    /\ UNCHANGED <<lambda_vars, stackset_vars, exit_code>>
    /\ UNCHANGED <<force_recreate, wrapped, stored, visible, live_data, calls, logs>>
    /\ UNCHANGED <<wh_vars, bp_vars, run_vars, main_vars, diff_vars, procs>>

LambdaNext == lambda_handler_record \/ lambda_handler_return

LambdaSpec == LambdaInit /\ [][LambdaNext]_vars


\* The records from the i-th on that have a body, in order.
RECURSIVE WithBody(_)
WithBody(i) ==
    IF i > Len(records) THEN <<>>
    ELSE (IF records[i].kind = "empty" THEN <<>> ELSE <<i>>) \o WithBody(i + 1)

\* The records the forwarding attempts were made for, in order.
Forwarded == [n \in 1..Len(forwards) |-> forwards[n].record]

\* The invocation is over: lambda_handler returned or raised.
LambdaOver == pc \in {"lambda_done", "lambda_raised"}

\* C38: when the invocation is over, every record with a body has had
\* exactly one forwarding attempt, in the order of the records, whatever
\* failed on the way, and no record without a body has had one.
C38_EveryRecordForwarded ==
    LambdaOver => Forwarded = WithBody(1)

\* The same for the invocations that returned.
C38_WhenReturned ==
    pc = "lambda_done" => Forwarded = WithBody(1)

====
